---- MODULE Spec2Model ----
(***************************************************************************)
(* Model of the probe x mode execution engine: the run-mode / connector    *)
(* planner (connectors.rs), the single-pair executor (bin/probe_exec.rs)   *)
(* and the matrix orchestrators (bin/probe_matrix.rs, bin/fence_bang.rs).  *)
(*                                                                         *)
(* Conventions.  Option<T> is a sequence of length <= 1 (<<>> is None).    *)
(* Result<T> is a record [ok, val] or [ok, err].  A path is a sequence of  *)
(* components; an OsString that is not a path is a one-element sequence.   *)
(* Helper binaries (probe-exec, emit-record) are installed; what they      *)
(* exit with is part of the model.                                         *)
(***************************************************************************)
EXTENDS Integers, Sequences, FiniteSets, TLC

\* Longest MODES / PROBES list the environment supplies.
MaxModes == 2
MaxProbes == 2
\* Number of times the planner is called for the same arguments.
MaxCalls == 2

VARIABLES
    entry,                  \* which binary was started
    MODES,                  \* env MODES after split_list
    PROBES,                 \* env PROBES after split_list
    external_cli_present,   \* host: the external CLI is on the search path
    platform,               \* host: uname -s
    workspace_writable,     \* host: a workspace temp directory can be created
    emit_record_ok,         \* host: emit-record accepts the probe's record
    \* --- orchestrator (probe-matrix / fence-bang) ---
    mpc, probes, modes, mi, pj, errors, stdout, stderr, attempted, exit_code, summary,
    outcomes,               \* what each finished child returned (exit code, stdout)
    \* --- single-pair executor (probe-exec) ---
    pe_pc, pe_args, pe_probe, pe_tmpdir, pe_plan, pe_stdout, pe_err, pe_exit,
    spawned, emitted, scratch,
    \* --- planner and detect-stack, called on their own ---
    pl_in,                  \* the arguments the planner / detect-stack is given
    pl_calls,               \* plan_for_mode calls made so far: host state and result
    ds_run,                 \* the last detect-stack run: inputs and what it printed
    \* --- catalog index and schema loader, called on their own ---
    cat_in,                 \* the catalog file and FENCE_ALLOWED_CATALOG_SCHEMAS
    cat_out,                \* what CapabilityIndex::load returned
    sl_in,                  \* the files and options load_json_schema is given
    sl_pc,                  \* where load_json_schema is
    sl_schema,              \* schema_value
    sl_trace,               \* the steps load_json_schema has taken
    sl_out,                 \* what load_json_schema returned
    \* --- helpers called on their own ---
    bd_path,                \* what BoundarySchemaDescriptor::schema_path returned
    cov_in,                 \* the index, the probes and the coverage map on disk
    cov_out,                \* the coverage map built, the discrepancies collected
    ns_in,                  \* the ids normalize_secondary_ids is given
    ns_out,                 \* what normalize_secondary_ids returned, once and twice
    cli_in,                 \* the command line of probe-matrix
    cli_out,                \* what Cli::parse returned
    fb_in,                  \* a child fence-bang waits for: mode, exit code, output
    fb_out                  \* what fence-bang's run_probe did with it

envVars == <<entry, MODES, PROBES, external_cli_present, platform, workspace_writable,
             emit_record_ok>>
mVars == <<mpc, probes, modes, mi, pj, errors, stdout, stderr, attempted, exit_code,
           summary, outcomes>>
peVars == <<pe_pc, pe_args, pe_probe, pe_tmpdir, pe_plan, pe_stdout, pe_err, pe_exit,
            spawned, emitted, scratch>>
toolVars == <<bd_path, cov_in, cov_out, ns_in, ns_out, cli_in, cli_out, fb_in, fb_out>>
loaderVars == <<cat_in, cat_out, sl_in, sl_pc, sl_schema, sl_trace, sl_out, toolVars>>
auxVars == <<pl_in, pl_calls, ds_run, loaderVars>>
vars == <<envVars, mVars, peVars, auxVars>>

Ok(v) == [ok |-> TRUE, val |-> v]
Err(e) == [ok |-> FALSE, err |-> e]
OsStr(s) == <<s>>

(***************************************************************************)
(* connectors.rs                                                           *)
(***************************************************************************)
RunMode == {"Baseline", "CodexSandbox", "CodexFull"}

as_str(m) ==
    CASE m = "Baseline" -> "baseline"
      [] m = "CodexSandbox" -> "codex-sandbox"
      [] m = "CodexFull" -> "codex-full"

\* Variant: every run mode is spawned directly.
connector_ambient(m) == "Ambient"

connector(m) ==
    IF m \in {"Baseline", "CodexFull"} THEN "Ambient" ELSE "ExternalCli"

is_external(m) == connector(m) = "ExternalCli"

\* Variant: the override is applied to baseline as well.
sandbox_env_any_mode(m, override_value) ==
    IF override_value # <<>> THEN override_value[1]
    ELSE CASE m = "Baseline" -> ""
           [] m = "CodexSandbox" -> "workspace-write"
           [] m = "CodexFull" -> "danger-full-access"

sandbox_env(m, override_value) ==
    CASE m = "Baseline" -> ""
      [] m = "CodexSandbox" ->
            IF override_value = <<>> THEN "workspace-write" ELSE override_value[1]
      [] m = "CodexFull" ->
            IF override_value = <<>> THEN "danger-full-access" ELSE override_value[1]

sandbox_stack_value(m, override_value) ==
    LET value == sandbox_env(m, override_value) IN
    IF value = "" THEN Ok(<<>>) ELSE Ok(<<value>>)

external_cli_command == "codex"

external_platform_target(p) ==
    CASE p = "Darwin" -> Ok("macos")
      [] p = "Linux" -> Ok("linux")
      [] OTHER -> Err([kind |-> "UnsupportedPlatform", name |-> p])

\* Variant: the planner takes the external CLI for granted.
ensure_external_unchecked == Ok(TRUE)

ensure_external_available ==
    IF external_cli_present
    THEN Ok(TRUE)
    ELSE Err([kind |-> "ExternalCliNotFound", name |-> external_cli_command])

\* Variant: the external CLI is required whatever the connector.
ensure_connector_present_any(m) == ensure_external_available

ensure_connector_present(m) ==
    IF connector(m) = "Ambient" THEN Ok(TRUE) ELSE ensure_external_available

\* Variant: the platform target is computed for every run mode.
platform_target_any_mode(m, p) ==
    LET t == external_platform_target(p)
    IN IF t.ok THEN Ok(<<t.val>>) ELSE t

platform_target(m, p) ==
    IF m = "CodexSandbox"
    THEN LET t == external_platform_target(p)
         IN IF t.ok THEN Ok(<<t.val>>) ELSE t
    ELSE Ok(<<>>)

\* Variant: the `--` that ends the CLI's own options is left out.
command_spec_no_separator(m, target, probe_path) ==
    IF m \in {"Baseline", "CodexFull"}
    THEN Ok([program |-> probe_path, args |-> <<>>])
    ELSE IF target = <<>>
         THEN Err([kind |-> "MissingPlatformTarget", name |-> ""])
         ELSE Ok([program |-> OsStr(external_cli_command),
                  args |-> <<OsStr("sandbox"), OsStr(target[1]), OsStr("--full-auto"),
                             probe_path>>])

command_spec(m, target, probe_path) ==
    IF m \in {"Baseline", "CodexFull"}
    THEN Ok([program |-> probe_path, args |-> <<>>])
    ELSE IF target = <<>>
         THEN Err([kind |-> "MissingPlatformTarget", name |-> ""])
         ELSE Ok([program |-> OsStr(external_cli_command),
                  args |-> <<OsStr("sandbox"), OsStr(target[1]), OsStr("--full-auto"),
                             OsStr("--"), probe_path>>])

\* Variant: no run mode carries a preflight.
preflight_plan_none(m, target) == Ok(<<>>)

preflight_plan(m, target) ==
    IF m = "CodexSandbox"
    THEN IF target = <<>>
         THEN Err([kind |-> "MissingPlatformTarget", name |-> ""])
         ELSE Ok(<<[kind |-> "ExternalTmp", platform_target |-> target[1]]>>)
    ELSE Ok(<<>>)

RunMode_try_from(value) ==
    CASE value = "baseline" -> Ok("Baseline")
      [] value = "codex-sandbox" -> Ok("CodexSandbox")
      [] value = "codex-full" -> Ok("CodexFull")
      [] OTHER -> Err([kind |-> "UnknownMode", name |-> value])

plan_for_mode(requested_mode, p, probe_path, sandbox_override) ==
    LET rm == RunMode_try_from(requested_mode) IN
    IF ~rm.ok THEN rm ELSE
    LET run_mode == rm.val
        present == ensure_connector_present(run_mode) IN
    IF ~present.ok THEN present ELSE
    LET target == platform_target(run_mode, p) IN
    IF ~target.ok THEN target ELSE
    LET command == command_spec(run_mode, target.val, probe_path) IN
    IF ~command.ok THEN command ELSE
    LET preflight == preflight_plan(run_mode, target.val) IN
    IF ~preflight.ok THEN preflight ELSE
    Ok([run_mode |-> run_mode,
        connector |-> connector(run_mode),
        sandbox_env |-> sandbox_env(run_mode, sandbox_override),
        command |-> command.val,
        preflight |-> preflight.val])

\* MODE_SPECS: run mode and whether its default gate needs the external CLI.
MODE_SPECS ==
    << [run_mode |-> "Baseline", gated |-> FALSE],
       [run_mode |-> "CodexFull", gated |-> FALSE],
       [run_mode |-> "CodexSandbox", gated |-> TRUE] >>

default_mode_names_ungated(availability) ==
    [k \in 1..Len(MODE_SPECS) |-> as_str(MODE_SPECS[k].run_mode)]

default_mode_names(availability) ==
    LET gate(spec) == (~spec.gated) \/ availability
        kept == SelectSeq(MODE_SPECS, gate)
    IN [k \in 1..Len(kept) |-> as_str(kept[k].run_mode)]

allowed_mode_names == {as_str(MODE_SPECS[k].run_mode) : k \in 1..Len(MODE_SPECS)}

parse_modes(names) ==
    IF \E k \in 1..Len(names) : ~RunMode_try_from(names[k]).ok
    THEN LET bad == CHOOSE k \in 1..Len(names) :
                      /\ ~RunMode_try_from(names[k]).ok
                      /\ \A l \in 1..(k - 1) : RunMode_try_from(names[l]).ok
         IN RunMode_try_from(names[bad])
    ELSE Ok([k \in 1..Len(names) |-> RunMode_try_from(names[k]).val])

(***************************************************************************)
(* The host's file tree.  probes/ holds two scripts and a symlink that     *)
(* points out of the tree, probes/extra/ two more scripts; /tmp holds a    *)
(* script of its own.                                                      *)
(***************************************************************************)
repo_root == <<"repo">>
probes_root == repo_root \o <<"probes">>
outside_script == <<"tmp", "outside.sh">>

FsEntries ==
    { [path |-> probes_root \o <<"good.sh">>, kind |-> "file", exec |-> TRUE,
       target |-> <<>>, metadata |-> TRUE],
      [path |-> probes_root \o <<"malformed.sh">>, kind |-> "file", exec |-> TRUE,
       target |-> <<>>, metadata |-> TRUE],
      [path |-> probes_root \o <<"extra", "failing.sh">>, kind |-> "file", exec |-> TRUE,
       target |-> <<>>, metadata |-> TRUE],
      [path |-> probes_root \o <<"extra", "nometa.sh">>, kind |-> "file", exec |-> TRUE,
       target |-> <<>>, metadata |-> FALSE],
      [path |-> probes_root \o <<"escape.sh">>, kind |-> "symlink", exec |-> TRUE,
       target |-> outside_script, metadata |-> TRUE],
      [path |-> outside_script, kind |-> "file", exec |-> TRUE,
       target |-> <<>>, metadata |-> TRUE] }

FsPaths == {e.path : e \in FsEntries}
FsEntry(path) == CHOOSE e \in FsEntries : e.path = path

\* fs::canonicalize: follow symlinks to the real file; None when nothing is there.
RECURSIVE canonicalize(_)
canonicalize(path) ==
    IF path \notin FsPaths THEN <<>>
    ELSE IF FsEntry(path).kind = "symlink" THEN canonicalize(FsEntry(path).target)
         ELSE <<path>>

\* Path::starts_with, component by component.
starts_with(path, base) ==
    /\ Len(path) >= Len(base)
    /\ SubSeq(path, 1, Len(base)) = base

\* File name plus the script extension, and the id a file name yields.
with_extension(name) ==
    CASE name = "good" -> "good.sh"
      [] name = "malformed" -> "malformed.sh"
      [] name = "escape" -> "escape.sh"
      [] name = "missing" -> "missing.sh"
      [] OTHER -> name

file_stem(name) ==
    CASE name = "good.sh" -> "good"
      [] name = "malformed.sh" -> "malformed"
      [] name = "failing.sh" -> "failing"
      [] name = "nometa.sh" -> "nometa"
      [] name = "escape.sh" -> "escape"
      [] name = "outside.sh" -> "outside"
      [] OTHER -> name

\* An identifier is a bare name or a file name (one component), or an
\* absolute path (several components).
probe_candidate(identifier) ==
    IF Len(identifier) > 1 THEN identifier
    ELSE probes_root \o <<with_extension(identifier[1])>>

resolve_probe(identifier) ==
    LET canon == canonicalize(probe_candidate(identifier)) IN
    IF /\ canon # <<>>
       /\ starts_with(canon[1], probes_root)
       /\ Len(canon[1]) > Len(probes_root)
       /\ FsEntry(canon[1]).kind = "file"
       /\ FsEntry(canon[1]).exec
    THEN Ok([id |-> file_stem(canon[1][Len(canon[1])]), path |-> canon[1]])
    ELSE Err([kind |-> "ProbeNotFound", name |-> identifier[Len(identifier)]])

\* The file names directly under probes/, sorted.
ProbeDirListing == << <<"escape.sh">>, <<"good.sh">>, <<"malformed.sh">> >>

list_probes ==
    LET resolves(ident) == resolve_probe(ident).ok
        kept == SelectSeq(ProbeDirListing, resolves)
    IN [k \in 1..Len(kept) |-> resolve_probe(kept[k]).val]

(***************************************************************************)
(* bin/probe_exec.rs: the single-pair executor                             *)
(***************************************************************************)
\* ProbeMetadata::from_script followed by resolve_probe_metadata.
resolve_probe_metadata(probe) ==
    IF FsEntry(probe.path).metadata
    THEN Ok([id |-> probe.id, version |-> "1", primary_capability |-> "cap_fs_read"])
    ELSE Err([kind |-> "ProbeMetadataMissing", name |-> probe.id])

ensure_probe_executable(path) ==
    IF path \notin FsPaths \/ FsEntry(path).kind # "file"
    THEN Err([kind |-> "ProbeNotFoundOrNotExecutable", name |-> path[Len(path)]])
    ELSE IF ~FsEntry(path).exec
         THEN Err([kind |-> "ProbeNotExecutable", name |-> path[Len(path)]])
         ELSE Ok(TRUE)

\* The workspace temp directory: created, or the last candidate and why it failed.
workspace_tmpdir_plan(writable) ==
    IF writable
    THEN [path |-> << repo_root \o <<"tmp">> >>, last_error |-> <<>>]
    ELSE [path |-> <<>>,
          last_error |-> << [attempted |-> repo_root \o <<"tmp">>,
                             message |-> "Permission denied (os error 13)"] >>]

\* FENCE_SANDBOX_MODE unset (<<>>), empty, or set, and what is made of it.
SandboxModeEnv == { <<>>, <<"">>, <<"custom-mode">> }

sandbox_override_from_env(value) ==
    IF value = <<>> \/ value[1] = "" THEN <<>> ELSE value

\* FENCE_SANDBOX_MODE as sandbox_override_from_env reads it.
SandboxOverrides == { <<>>, <<"read-only">> }

classify_preflight_error(err_text) ==
    IF err_text = "Operation not permitted"
    THEN [status |-> "denied", errno |-> <<"EPERM">>,
          message |-> "preflight denied (operation not permitted)"]
    ELSE IF err_text = "Permission denied (os error 13)"
         THEN [status |-> "denied", errno |-> <<"EACCES">>,
               message |-> "preflight denied (permission denied)"]
         ELSE [status |-> "denied", errno |-> <<>>, message |-> "preflight failed"]

\* bin/emit_record.rs validate_status
validate_status(status) == status \in {"success", "denied", "partial", "error"}

\* The emit-record invocation emit_preflight_record builds.
emit_preflight_record(metadata, run_mode, target_path, code, err_text, command_str) ==
    LET c == classify_preflight_error(err_text) IN
    [run_mode |-> run_mode,
     probe_name |-> metadata.id,
     probe_version |-> metadata.version,
     primary_capability_id |-> metadata.primary_capability,
     command |-> command_str,
     category |-> "preflight",
     verb |-> "mktemp",
     target |-> target_path,
     status |-> c.status,
     message |-> c.message,
     errno |-> c.errno,
     raw_exit_code |-> code,
     stderr_snippet |-> err_text]

\* What emit-record prints for an invocation (bin/emit_record.rs run).
emit_record(a) ==
    [kind |-> "json", layout |-> "compact",
     value |-> [probe |-> a.probe_name, mode |-> a.run_mode, command |-> a.command,
                category |-> a.category, verb |-> a.verb, target |-> a.target,
                observed_result |-> a.status, stderr_snippet |-> a.stderr_snippet]]

\* The trial command of run_external_preflight and the path it tries to create.
preflight_target(tmpdir) == tmpdir \o <<"probe-preflight">>

preflight_args(run_mode, target_name, tmpdir) ==
    IF run_mode = "CodexSandbox"
    THEN << OsStr("sandbox"), OsStr(target_name), OsStr("--full-auto"), OsStr("--"),
            <<"bin", "mkdir">>, preflight_target(tmpdir) >>
    ELSE <<>>

\* How the external CLI can end the trial mkdir.
PreflightFailures ==
    { [code |-> 1, err_text |-> "Operation not permitted"],
      [code |-> 71, err_text |-> "sandbox_apply: Operation not permitted"] }

\* What a probe script does when it is run: exit code and bytes on stdout.
probe_record(id, mode_name, layout) ==
    [kind |-> "json", layout |-> layout,
     value |-> [probe |-> id, mode |-> mode_name, command |-> <<OsStr("cat")>>,
                category |-> "fs", verb |-> "read", target |-> repo_root,
                observed_result |-> "success", stderr_snippet |-> ""]]

ProbeBehaviour(probe_path, mode_name) ==
    LET name == probe_path[Len(probe_path)] IN
    CASE name = "good.sh" ->
            { [code |-> 0, out |-> <<probe_record("good", mode_name, "pretty")>>] }
      [] name = "failing.sh" -> { [code |-> c, out |-> <<>>] : c \in {1, 71} }
      [] OTHER -> { [code |-> 0, out |-> << [kind |-> "text"] >>] }

\* Outcomes of the planned command: the script's own, or the external CLI
\* failing to apply its sandbox policy.
CommandOutcomes(plan) ==
    LET probe_path == IF plan.command.args = <<>>
                      THEN plan.command.program
                      ELSE plan.command.args[Len(plan.command.args)]
    IN ProbeBehaviour(probe_path, as_str(plan.run_mode))
         \cup (IF plan.command.args = <<>> THEN {} ELSE { [code |-> 71, out |-> <<>>] })

ExecExit(code, e) ==
    /\ pe_pc' = "exited"
    /\ pe_exit' = code
    /\ pe_err' = e

\* Variant: the identifier's candidate path is used as it stands.
Exec_ResolveProbe_Unchecked ==
    /\ pe_pc = "resolve_probe"
    /\ LET candidate == probe_candidate(pe_args.probe_name) IN
       pe_probe' = << [id |-> file_stem(candidate[Len(candidate)]), path |-> candidate] >>
    /\ pe_pc' = IF probe_candidate(pe_args.probe_name) \in FsPaths
                THEN "metadata" ELSE "exited"
    /\ pe_exit' = IF probe_candidate(pe_args.probe_name) \in FsPaths THEN pe_exit ELSE 1
    /\ UNCHANGED <<envVars, auxVars, mVars, pe_args, pe_tmpdir, pe_plan, pe_stdout, pe_err, spawned,
                   emitted, scratch>>

Exec_ResolveProbe ==
    /\ pe_pc = "resolve_probe"
    /\ LET r == resolve_probe(pe_args.probe_name) IN
       IF r.ok
       THEN /\ pe_probe' = <<r.val>>
            /\ pe_pc' = "metadata"
            /\ UNCHANGED <<pe_exit, pe_err>>
       ELSE /\ ExecExit(1, <<r.err>>)
            /\ UNCHANGED pe_probe
    /\ UNCHANGED <<envVars, auxVars, mVars, pe_args, pe_tmpdir, pe_plan, pe_stdout, spawned,
                   emitted, scratch>>

\* Variant: a probe without metadata is run all the same.
Exec_Metadata_Unchecked ==
    /\ pe_pc = "metadata"
    /\ LET x == ensure_probe_executable(pe_probe[1].path) IN
       IF ~x.ok
       THEN ExecExit(1, <<x.err>>) /\ UNCHANGED pe_tmpdir
       ELSE /\ pe_tmpdir' = workspace_tmpdir_plan(workspace_writable)
            /\ pe_pc' = "plan"
            /\ UNCHANGED <<pe_exit, pe_err>>
    /\ UNCHANGED <<envVars, auxVars, mVars, pe_args, pe_probe, pe_plan, pe_stdout, spawned,
                   emitted, scratch>>

Exec_Metadata ==
    /\ pe_pc = "metadata"
    /\ LET m == resolve_probe_metadata(pe_probe[1])
           x == ensure_probe_executable(pe_probe[1].path) IN
       IF ~m.ok
       THEN ExecExit(1, <<m.err>>) /\ UNCHANGED pe_tmpdir
       ELSE IF ~x.ok
            THEN ExecExit(1, <<x.err>>) /\ UNCHANGED pe_tmpdir
            ELSE /\ pe_tmpdir' = workspace_tmpdir_plan(workspace_writable)
                 /\ pe_pc' = "plan"
                 /\ UNCHANGED <<pe_exit, pe_err>>
    /\ UNCHANGED <<envVars, auxVars, mVars, pe_args, pe_probe, pe_plan, pe_stdout, spawned,
                   emitted, scratch>>

\* Variant: the probe is run without the trial directory creation.
after_plan_no_preflight(plan, tmpdir) ==
    IF is_external(plan.run_mode) /\ tmpdir.path = <<>> /\ tmpdir.last_error # <<>>
    THEN "tmpdir_error"
    ELSE "run_command"

\* Variant: a missing workspace temp directory does not stop the probe.
after_plan_tmpdir_fallthrough(plan, tmpdir) ==
    IF is_external(plan.run_mode) /\ tmpdir.path # <<>> /\ plan.preflight # <<>>
    THEN "preflight"
    ELSE "run_command"

\* Where run() goes once the plan is known (probe_exec.rs 67-100).
after_plan(plan, tmpdir) ==
    IF is_external(plan.run_mode)
    THEN IF tmpdir.path # <<>>
         THEN IF plan.preflight # <<>> THEN "preflight" ELSE "run_command"
         ELSE IF tmpdir.last_error # <<>> THEN "tmpdir_error" ELSE "run_command"
    ELSE "run_command"

Exec_PlanForMode ==
    /\ pe_pc = "plan"
    /\ \E sandbox_override \in SandboxOverrides :
         LET r == plan_for_mode(pe_args.run_mode, platform, pe_probe[1].path,
                                sandbox_override) IN
         IF r.ok
         THEN /\ pe_plan' = <<r.val>>
              /\ pe_pc' = after_plan(r.val, pe_tmpdir)
              /\ UNCHANGED <<pe_exit, pe_err>>
         ELSE /\ ExecExit(1, <<r.err>>)
              /\ UNCHANGED pe_plan
    /\ UNCHANGED <<envVars, auxVars, mVars, pe_args, pe_probe, pe_tmpdir, pe_stdout, spawned,
                   emitted, scratch>>

\* Variant: after the record is written the trial command's exit code is passed on.
EmitPreflight_PropagateCode(invocation, helper_ok) ==
    /\ emitted' = Append(emitted, invocation)
    /\ IF helper_ok /\ validate_status(invocation.status)
       THEN /\ pe_stdout' = Append(pe_stdout, emit_record(invocation))
            /\ ExecExit(invocation.raw_exit_code, <<>>)
       ELSE /\ pe_stdout' = pe_stdout
            /\ ExecExit(1, << [kind |-> "EmitRecordFailed", name |-> "emit-record"] >>)

\* emit_preflight_record: run emit-record; its stdout is ours, its failure is fatal.
EmitPreflight(invocation, helper_ok) ==
    /\ emitted' = Append(emitted, invocation)
    /\ IF helper_ok /\ validate_status(invocation.status)
       THEN /\ pe_stdout' = Append(pe_stdout, emit_record(invocation))
            /\ ExecExit(0, <<>>)
       ELSE /\ pe_stdout' = pe_stdout
            /\ ExecExit(1, << [kind |-> "EmitRecordFailed", name |-> "emit-record"] >>)

Exec_Preflight ==
    /\ pe_pc = "preflight"
    /\ LET plan == pe_plan[1]
           tmpdir == pe_tmpdir.path[1]
           target == preflight_target(tmpdir)
           args == preflight_args(plan.run_mode, plan.preflight[1].platform_target, tmpdir)
           cmd == [what |-> "preflight", program |-> OsStr(external_cli_command),
                   args |-> args]
           meta == resolve_probe_metadata(pe_probe[1]).val
       IN
       IF args = <<>>
       THEN /\ pe_pc' = "run_command"
            /\ UNCHANGED <<spawned, emitted, scratch, pe_stdout, pe_exit, pe_err>>
       ELSE
         /\ spawned' = Append(spawned, cmd)
         /\ \/ \* the trial mkdir succeeded: remove the directory and go on
               /\ scratch' = (scratch \cup {target}) \ {target}
               /\ pe_pc' = "run_command"
               /\ UNCHANGED <<emitted, pe_stdout, pe_exit, pe_err>>
            \/ \* it failed: record the denial instead of running the probe
               /\ \E f \in PreflightFailures :
                    EmitPreflight(
                        emit_preflight_record(meta, as_str(plan.run_mode), target, f.code,
                                              f.err_text,
                                              <<OsStr(external_cli_command)>> \o args),
                        emit_record_ok)
               /\ UNCHANGED scratch
    /\ UNCHANGED <<envVars, auxVars, mVars, pe_args, pe_probe, pe_tmpdir, pe_plan>>

Exec_TmpdirError ==
    /\ pe_pc = "tmpdir_error"
    /\ LET plan == pe_plan[1]
           e == pe_tmpdir.last_error[1]
           meta == resolve_probe_metadata(pe_probe[1]).val
       IN EmitPreflight(
                emit_preflight_record(meta, as_str(plan.run_mode), e.attempted, 1,
                                      e.message,
                                      <<OsStr("mkdir"), OsStr("-p"), e.attempted>>),
                emit_record_ok)
    /\ UNCHANGED <<envVars, auxVars, mVars, pe_args, pe_probe, pe_tmpdir, pe_plan, spawned, scratch>>

Exec_RunCommand ==
    /\ pe_pc = "run_command"
    /\ LET plan == pe_plan[1] IN
       /\ spawned' = Append(spawned, [what |-> "probe", program |-> plan.command.program,
                                      args |-> plan.command.args])
       /\ \E o \in CommandOutcomes(plan) :
            /\ pe_stdout' = pe_stdout \o o.out
            /\ ExecExit(o.code, <<>>)
    /\ UNCHANGED <<envVars, auxVars, mVars, pe_args, pe_probe, pe_tmpdir, pe_plan, emitted, scratch>>

(***************************************************************************)
(* bin/probe_matrix.rs and bin/fence_bang.rs: the matrix orchestrators     *)
(***************************************************************************)
Diag(what, probe_id, mode_name, cause, code) ==
    [what |-> what, probe |-> probe_id, mode |-> mode_name, cause |-> cause, code |-> code]

\* PROBES (or the whole directory when it is unset), resolved in order.
resolve_probes(requested) ==
    IF requested = <<>>
    THEN Ok(list_probes)
    ELSE IF \E k \in 1..Len(requested) : ~resolve_probe(requested[k]).ok
         THEN LET bad == CHOOSE k \in 1..Len(requested) :
                           /\ ~resolve_probe(requested[k]).ok
                           /\ \A l \in 1..(k - 1) : resolve_probe(requested[l]).ok
              IN resolve_probe(requested[bad])
         ELSE Ok([k \in 1..Len(requested) |-> resolve_probe(requested[k]).val])

\* Variant: names that are not run modes are dropped instead of refused.
resolve_modes_lenient(requested) ==
    LET mode_names == IF requested = <<>>
                      THEN default_mode_names(external_cli_present)
                      ELSE requested
        known(name) == name \in allowed_mode_names
    IN IF mode_names = <<>>
       THEN Err([kind |-> "NoModesResolved", name |-> ""])
       ELSE parse_modes(SelectSeq(mode_names, known))

resolve_modes(requested) ==
    LET mode_names == IF requested = <<>>
                      THEN default_mode_names(external_cli_present)
                      ELSE requested
    IN IF mode_names = <<>>
       THEN Err([kind |-> "NoModesResolved", name |-> ""])
       ELSE IF \E k \in 1..Len(mode_names) : mode_names[k] \notin allowed_mode_names
            THEN LET bad == CHOOSE k \in 1..Len(mode_names) :
                              /\ mode_names[k] \notin allowed_mode_names
                              /\ \A l \in 1..(k - 1) : mode_names[l] \in allowed_mode_names
                 IN Err([kind |-> "UnsupportedModeRequested", name |-> mode_names[bad]])
            ELSE parse_modes(mode_names)

\* serde_json::from_slice on the child's whole stdout: exactly one JSON value.
from_slice(bytes) ==
    IF Len(bytes) = 1 /\ bytes[1].kind = "json"
    THEN Ok(bytes[1].value)
    ELSE Err([kind |-> "ParseError", name |-> ""])

\* serde_json::to_string: the compact rendering of a value.
to_string(value) == [kind |-> "json", layout |-> "compact", value |-> value]

is_codex(m) == m \in {"CodexSandbox", "CodexFull"}

\* The child's stderr is inherited, so the captured copy is empty.
captured_stderr == ""
contains_sandbox_apply(text) == text = "sandbox_apply: Operation not permitted"

\* Variant: the child's stdout is passed through as it came.
run_probe_echo(m, code, bytes) ==
    IF code # 0
    THEN [act |-> "fail", cause |-> "exit", code |-> code, line |-> <<>>]
    ELSE [act |-> "print", cause |-> "", code |-> 0, line |-> bytes]

\* run_probe once the child has exited: print a line, skip, or fail.
run_probe_matrix(m, code, bytes) ==
    IF code # 0
    THEN [act |-> "fail", cause |-> "exit", code |-> code, line |-> <<>>]
    ELSE LET v == from_slice(bytes) IN
         IF ~v.ok
         THEN [act |-> "fail", cause |-> "parse", code |-> 0, line |-> <<>>]
         ELSE [act |-> "print", cause |-> "", code |-> 0, line |-> <<to_string(v.val)>>]

run_probe_bang(m, code, bytes) ==
    IF code # 0
    THEN IF is_codex(m) /\ (code = 71 \/ contains_sandbox_apply(captured_stderr))
         THEN [act |-> "skip", cause |-> "", code |-> code, line |-> <<>>]
         ELSE [act |-> "fail", cause |-> "exit", code |-> code, line |-> <<>>]
    ELSE LET v == from_slice(bytes) IN
         IF ~v.ok
         THEN [act |-> "fail", cause |-> "parse", code |-> 0, line |-> <<>>]
         ELSE [act |-> "print", cause |-> "", code |-> 0, line |-> <<to_string(v.val)>>]

run_probe(m, code, bytes) ==
    IF entry = "fence-bang" THEN run_probe_bang(m, code, bytes)
    ELSE run_probe_matrix(m, code, bytes)

Abort(e) ==
    /\ mpc' = "done"
    /\ exit_code' = 1
    /\ stderr' = Append(stderr, Diag("fatal", "", e.name, e.kind, 1))

Run_ResolveProbes ==
    /\ mpc = "resolve_probes"
    /\ LET r == resolve_probes(PROBES) IN
       IF r.ok
       THEN /\ probes' = r.val
            /\ mpc' = "resolve_modes"
            /\ UNCHANGED <<exit_code, stderr>>
       ELSE /\ Abort(r.err)
            /\ UNCHANGED probes
    /\ UNCHANGED <<envVars, auxVars, peVars, modes, mi, pj, errors, stdout, attempted, summary,
                   outcomes>>

Run_ResolveModes ==
    /\ mpc = "resolve_modes"
    /\ LET r == resolve_modes(MODES) IN
       IF r.ok
       THEN /\ modes' = r.val
            /\ mpc' = "loop"
            /\ UNCHANGED <<exit_code, stderr>>
       ELSE /\ Abort(r.err)
            /\ UNCHANGED modes
    /\ UNCHANGED <<envVars, auxVars, peVars, probes, mi, pj, errors, stdout, attempted, summary,
                   outcomes>>

\* Variant: the loops are left at the first recorded failure.
LoopDone_StopOnError == mi > Len(modes) \/ probes = <<>> \/ errors # <<>>

LoopDone == mi > Len(modes) \/ probes = <<>>

\* run_probe, first half: start probe-exec for the pair at hand.
RunProbe_Spawn ==
    /\ mpc = "loop"
    /\ ~LoopDone
    /\ attempted' = Append(attempted, <<mi, pj>>)
    /\ pe_args' = [run_mode |-> as_str(modes[mi]), probe_name |-> probes[pj].path]
    /\ pe_pc' = "resolve_probe"
    /\ pe_probe' = <<>>
    /\ pe_tmpdir' = [path |-> <<>>, last_error |-> <<>>]
    /\ pe_plan' = <<>>
    /\ pe_stdout' = <<>>
    /\ pe_err' = <<>>
    /\ pe_exit' = -1
    /\ spawned' = <<>>
    /\ emitted' = <<>>
    /\ mpc' = "wait"
    /\ UNCHANGED <<envVars, auxVars, probes, modes, mi, pj, errors, stdout, stderr, exit_code,
                   summary, outcomes, scratch>>

\* run_probe, second half, and the loop body around it.
RunProbe_Collect ==
    /\ mpc = "wait"
    /\ pe_pc = "exited"
    /\ LET m == modes[mi]
           probe == probes[pj]
           r == run_probe(m, pe_exit, pe_stdout)
       IN
       /\ outcomes' = Append(outcomes, [code |-> pe_exit, bytes |-> pe_stdout])
       /\ stdout' = stdout \o r.line
       /\ errors' = IF r.act = "fail"
                    THEN Append(errors, Diag("failed", probe.id, as_str(m), r.cause, r.code))
                    ELSE errors
       /\ stderr' = CASE r.act = "fail" ->
                           Append(stderr, Diag("failed", probe.id, as_str(m), r.cause, r.code))
                      [] r.act = "skip" ->
                           Append(stderr, Diag("skipping", probe.id, as_str(m), "", r.code))
                      [] OTHER -> stderr
    /\ IF pj < Len(probes)
       THEN pj' = pj + 1 /\ mi' = mi
       ELSE pj' = 1 /\ mi' = mi + 1
    /\ mpc' = "loop"
    /\ UNCHANGED <<envVars, auxVars, peVars, probes, modes, attempted, exit_code, summary>>

\* Variant: the exit status counts the failures.
Run_Finish_CountExit ==
    /\ mpc = "loop"
    /\ LoopDone
    /\ mpc' = "done"
    /\ exit_code' = Len(errors)
    /\ summary' = IF errors = <<>> THEN <<>>
                  ELSE << [count |-> Len(errors), messages |-> errors] >>
    /\ UNCHANGED <<envVars, auxVars, peVars, probes, modes, mi, pj, errors, stdout, stderr, attempted,
                   outcomes>>

Run_Finish ==
    /\ mpc = "loop"
    /\ LoopDone
    /\ mpc' = "done"
    /\ IF errors = <<>>
       THEN exit_code' = 0 /\ summary' = <<>>
       ELSE exit_code' = 1 /\ summary' = << [count |-> Len(errors), messages |-> errors] >>
    /\ UNCHANGED <<envVars, auxVars, peVars, probes, modes, mi, pj, errors, stdout, stderr, attempted,
                   outcomes>>

(***************************************************************************)
(* The runs considered                                                     *)
(***************************************************************************)
ModeNames == {"baseline", "codex-sandbox", "codex-full", "turbo"}

Identifiers ==
    { <<"good">>, <<"good.sh">>, probes_root \o <<"good.sh">>, <<"malformed">>,
      probes_root \o <<"extra", "failing.sh">>, probes_root \o <<"extra", "nometa.sh">>,
      <<"escape">>, <<"missing">>, outside_script }

MatrixIdentifiers ==
    { <<"good">>, <<"malformed">>, probes_root \o <<"extra", "failing.sh">>, <<"escape">> }

\* Lists of at most n elements of S, none of them twice.
ListsUpTo(S, n) ==
    { s \in UNION { [1..k -> S] : k \in 0..n } :
        \A a, b \in 1..Len(s) : a # b => s[a] # s[b] }

\* Nothing but the three binaries above is running.
ToolIdle ==
    /\ bd_path = <<>>
    /\ cov_in = <<>>
    /\ cov_out = <<>>
    /\ ns_in = <<>>
    /\ ns_out = <<>>
    /\ cli_in = <<>>
    /\ cli_out = <<>>
    /\ fb_in = <<>>
    /\ fb_out = <<>>

LoaderIdle ==
    /\ ToolIdle
    /\ cat_in = <<>>
    /\ cat_out = <<>>
    /\ sl_in = <<>>
    /\ sl_pc = "idle"
    /\ sl_schema = <<>>
    /\ sl_trace = <<>>
    /\ sl_out = <<>>

PlanIdle ==
    /\ pl_in = <<>>
    /\ pl_calls = <<>>
    /\ ds_run = <<>>

AuxIdle == PlanIdle /\ LoaderIdle

Init ==
    /\ entry \in {"probe-matrix", "fence-bang", "probe-exec"}
    /\ external_cli_present \in BOOLEAN
    /\ platform \in {"Linux", "FreeBSD"}
    /\ workspace_writable \in BOOLEAN
    /\ emit_record_ok \in BOOLEAN
    /\ IF entry = "probe-exec"
       THEN /\ MODES = <<>>
            /\ PROBES = <<>>
            /\ pe_args \in [run_mode : ModeNames, probe_name : Identifiers]
            /\ pe_pc = "resolve_probe"
            /\ mpc = "none"
       ELSE /\ MODES \in ListsUpTo(ModeNames, MaxModes)
            /\ PROBES \in ListsUpTo(MatrixIdentifiers, MaxProbes)
            /\ pe_args = [run_mode |-> "", probe_name |-> <<>>]
            /\ pe_pc = "idle"
            /\ mpc = "resolve_probes"
    /\ probes = <<>>
    /\ modes = <<>>
    /\ mi = 1
    /\ pj = 1
    /\ errors = <<>>
    /\ stdout = <<>>
    /\ stderr = <<>>
    /\ attempted = <<>>
    /\ exit_code = -1
    /\ summary = <<>>
    /\ outcomes = <<>>
    /\ pe_probe = <<>>
    /\ pe_tmpdir = [path |-> <<>>, last_error |-> <<>>]
    /\ pe_plan = <<>>
    /\ pe_stdout = <<>>
    /\ pe_err = <<>>
    /\ pe_exit = -1
    /\ spawned = <<>>
    /\ emitted = <<>>
    /\ scratch = {}
    /\ AuxIdle

Next ==
    \/ Exec_ResolveProbe
    \/ Exec_Metadata
    \/ Exec_PlanForMode
    \/ Exec_Preflight
    \/ Exec_TmpdirError
    \/ Exec_RunCommand
    \/ Run_ResolveProbes
    \/ Run_ResolveModes
    \/ RunProbe_Spawn
    \/ RunProbe_Collect
    \/ Run_Finish

Spec == Init /\ [][Next]_vars

(***************************************************************************)
(* Properties of the matrix orchestrators                                  *)
(***************************************************************************)
\* The k-th pair of the nested iteration, modes outer and probes inner.
PairAt(k) == <<((k - 1) \div Len(probes)) + 1, ((k - 1) % Len(probes)) + 1>>

\* The run went through its loops to the end (it was not refused at start-up).
Completed ==
    /\ mpc = "done"
    /\ \A k \in 1..Len(stderr) : stderr[k].what # "fatal"

PairMode(k) == modes[attempted[k][1]]
PairProbe(k) == probes[attempted[k][2]]

OneJson(bytes) == Len(bytes) = 1 /\ bytes[1].kind = "json"

\* The k-th finished pair counts as failed: a non-zero exit (fence-bang's
\* sandbox-unavailable skip aside) or a stdout that is not one JSON value.
FailedPair(k) ==
    IF outcomes[k].code # 0
    THEN ~(/\ entry = "fence-bang"
           /\ PairMode(k) \in {"CodexSandbox", "CodexFull"}
           /\ outcomes[k].code = 71)
    ELSE ~OneJson(outcomes[k].bytes)

Finished == [k \in 1..Len(outcomes) |-> k]
FailedIdx == SelectSeq(Finished, FailedPair)
PrintedPair(k) == outcomes[k].code = 0 /\ OneJson(outcomes[k].bytes)
PrintedIdx == SelectSeq(Finished, PrintedPair)

C2_FailuresAccumulate ==
    /\ Len(errors) = Len(FailedIdx)
    /\ \A n \in 1..Len(errors) :
         /\ errors[n].probe = PairProbe(FailedIdx[n]).id
         /\ errors[n].mode = as_str(PairMode(FailedIdx[n]))
         /\ \E t \in 1..Len(stderr) : stderr[t] = errors[n]
    /\ Completed =>
         /\ Len(outcomes) = Len(modes) * Len(probes)
         /\ exit_code = IF errors = <<>> THEN 0 ELSE 1
         /\ errors = <<>> => summary = <<>>
         /\ errors # <<>> =>
              /\ Len(summary) = 1
              /\ summary[1].count = Len(FailedIdx)
              /\ summary[1].messages = errors

C2_Witness ==
    /\ Completed
    /\ Len(errors) = 2
    /\ exit_code = 1
    /\ Len(outcomes) = 4
    /\ FailedPair(1)
    /\ PrintedPair(4)

\* C3: at every point stdout holds exactly one compact JSON line for each pair
\* finished so far that exited 0 with one JSON value on its stdout, in iteration
\* order; a failed pair adds nothing to stdout but a line to the diagnostic
\* stream; and a step never removes or changes a line already printed.
C3_StdoutIsSuccessfulPairs ==
    /\ Len(stdout) = Len(PrintedIdx)
    /\ \A n \in 1..Len(stdout) :
         stdout[n] = [kind |-> "json", layout |-> "compact",
                      value |-> outcomes[PrintedIdx[n]].bytes[1].value]
    /\ \A n \in 1..Len(FailedIdx) :
         \E t \in 1..Len(stderr) :
            /\ stderr[t].what = "failed"
            /\ stderr[t].probe = PairProbe(FailedIdx[n]).id
            /\ stderr[t].mode = as_str(PairMode(FailedIdx[n]))

C3_LinesKept ==
    /\ Len(stdout') >= Len(stdout)
    /\ SubSeq(stdout', 1, Len(stdout)) = stdout

C3_StdoutLines == [](C3_StdoutIsSuccessfulPairs) /\ [][C3_LinesKept]_vars

C3_Witness ==
    /\ mpc = "loop"
    /\ Len(outcomes) = 3
    /\ Len(stdout) = 2
    /\ FailedPair(2)
    /\ \E k \in {1, 3} : outcomes[k].bytes[1].layout = "pretty"

(***************************************************************************)
(* Properties of the single-pair executor                                  *)
(***************************************************************************)
\* Identifiers whose file really lies outside probes/: an absolute path to
\* /tmp/outside.sh and the names of the symlink that points at it.
EscapingIdentifiers == { outside_script, <<"escape">>, probes_root \o <<"escape.sh">> }

InsideProbesDir(path) ==
    /\ Len(path) > Len(probes_root)
    /\ \A k \in 1..Len(probes_root) : path[k] = probes_root[k]

\* The path a spawned probe command names: the program, or the wrapper's last argument.
SpawnedScript(cmd) == IF cmd.args = <<>> THEN cmd.program ELSE cmd.args[Len(cmd.args)]

\* C4: a probe resolves only to the canonical path of a regular file inside the
\* probes directory; an absolute path outside it and a symlink inside it that
\* points outside are refused, and probe-exec then exits non-zero having started
\* no command and written no record; whatever script is run is the resolved one.
C4_ProbeContainment ==
    /\ pe_probe # <<>> =>
         /\ InsideProbesDir(pe_probe[1].path)
         /\ \E e \in FsEntries : e.path = pe_probe[1].path /\ e.kind = "file"
    /\ pe_args.probe_name \in EscapingIdentifiers =>
         /\ pe_probe = <<>>
         /\ spawned = <<>>
         /\ emitted = <<>>
         /\ pe_stdout = <<>>
         /\ pe_pc \in {"resolve_probe", "exited"}
         /\ pe_pc = "exited" => pe_exit = 1 /\ pe_err # <<>> /\ pe_err[1].kind = "ProbeNotFound"
    /\ \A k \in 1..Len(spawned) :
         spawned[k].what = "probe" =>
            /\ pe_probe # <<>>
            /\ SpawnedScript(spawned[k]) = pe_probe[1].path
            /\ InsideProbesDir(SpawnedScript(spawned[k]))

C4_Witness ==
    /\ entry = "probe-exec"
    /\ pe_args.probe_name = <<"escape">>
    /\ pe_pc = "exited"
    /\ pe_exit = 1
    /\ spawned = <<>>

ToolMissing == ~external_cli_present /\ pe_args.run_mode = "codex-sandbox"
ToolMissingError == [kind |-> "ExternalCliNotFound", name |-> external_cli_command]

\* C5 (as amended): with the external CLI absent, probe-exec in codex-sandbox
\* mode starts no command (neither the trial mkdir nor the probe) and writes no
\* record, and exits 1; the error names the missing tool unless the probe itself
\* did not resolve or has no metadata, and it is raised only after the probe was
\* resolved.  In a matrix run the failure is per pair: every codex-sandbox pair
\* exits 1 with nothing on stdout, and all pairs, those of the other modes
\* included, are still started.
C5_MissingToolFailsThePair ==
    /\ ToolMissing =>
         /\ spawned = <<>>
         /\ emitted = <<>>
         /\ pe_stdout = <<>>
         /\ pe_pc = "exited" =>
              /\ pe_exit = 1
              /\ Len(pe_err) = 1
              /\ \/ pe_err[1] = ToolMissingError /\ pe_probe # <<>>
                 \/ pe_err[1].kind = "ProbeNotFound" /\ pe_probe = <<>>
                 \/ pe_err[1].kind = "ProbeMetadataMissing" /\ pe_probe # <<>>
    /\ (~external_cli_present /\ Completed) =>
         /\ Len(outcomes) = Len(modes) * Len(probes)
         /\ \A k \in 1..Len(outcomes) :
              PairMode(k) = "CodexSandbox" =>
                 outcomes[k] = [code |-> 1, bytes |-> <<>>]

C5_Witness ==
    /\ entry = "probe-exec"
    /\ ToolMissing
    /\ pe_pc = "exited"
    /\ pe_err = <<ToolMissingError>>
    /\ pe_probe # <<>>
    /\ pe_tmpdir.path # <<>>

\* C5 as stated: the missing tool is reported before any probe is resolved or
\* run, in probe-exec and in a matrix run whose MODES names codex-sandbox.
C5_AsStated ==
    /\ (ToolMissing /\ entry = "probe-exec") => pe_probe = <<>>
    /\ (~external_cli_present /\ \E k \in 1..Len(MODES) : MODES[k] = "codex-sandbox") =>
         /\ probes = <<>>
         /\ attempted = <<>>

\* C6 as stated: in both orchestrators a pair whose child exits with the
\* could-not-apply-policy code (71) in codex-sandbox mode is skipped, not kept as
\* a failure, and every other non-zero exit is kept as a failure.
C6_AsStated ==
    \A k \in 1..Len(outcomes) :
        LET kept == \E n \in 1..Len(errors) :
                       /\ errors[n].probe = PairProbe(k).id
                       /\ errors[n].mode = as_str(PairMode(k))
        IN /\ (PairMode(k) = "CodexSandbox" /\ outcomes[k].code = 71) => ~kept
           /\ (outcomes[k].code # 0 /\ ~(PairMode(k) = "CodexSandbox" /\ outcomes[k].code = 71))
                 => kept

SupportedModeNames == {"baseline", "codex-sandbox", "codex-full"}
HostCannotSandbox == ~external_cli_present \/ platform \notin {"Linux", "Darwin"}

PreflightFailed ==
    /\ pe_pc = "exited"
    /\ Len(spawned) = 1
    /\ spawned[1].what = "preflight"

LastPairKept ==
    \E n \in 1..Len(errors) :
       /\ errors[n].probe = PairProbe(Len(outcomes)).id
       /\ errors[n].mode = as_str(PairMode(Len(outcomes)))

\* C9 (as amended): when the trial mkdir fails and emit-record succeeds, the
\* record written has observed_result = denied, probe-exec exits 0, and the
\* orchestrator prints that record and keeps no failure for the pair; when
\* emit-record itself fails, nothing is written, probe-exec exits 1 and the
\* orchestrator keeps the pair as a failure.
C9_PreflightDenialRecorded ==
    PreflightFailed =>
      /\ IF pe_stdout # <<>>
         THEN /\ Len(pe_stdout) = 1
              /\ pe_stdout[1].value.observed_result = "denied"
              /\ pe_stdout[1].value.category = "preflight"
              /\ pe_exit = 0
         ELSE /\ pe_exit = 1
              /\ pe_err = << [kind |-> "EmitRecordFailed", name |-> "emit-record"] >>
      /\ (mpc \in {"loop", "done"} /\ outcomes # <<>>) =>
           IF pe_exit = 0
           THEN /\ ~LastPairKept
                /\ stdout # <<>>
                /\ stdout[Len(stdout)].value = pe_stdout[1].value
           ELSE LastPairKept

C9_Witness ==
    /\ entry = "probe-matrix"
    /\ PreflightFailed
    /\ mpc = "done"
    /\ exit_code = 0
    /\ Len(stdout) = 1
    /\ stdout[1].value.observed_result = "denied"

\* C9 as stated: whenever the trial mkdir fails, a denied record is written and
\* probe-exec exits 0.
C9_AsStated ==
    PreflightFailed =>
      /\ pe_exit = 0
      /\ Len(pe_stdout) = 1
      /\ pe_stdout[1].value.observed_result = "denied"

NoTmpdir ==
    /\ pe_plan # <<>>
    /\ pe_plan[1].run_mode = "CodexSandbox"
    /\ pe_tmpdir.path = <<>>

\* C10 (as amended): in codex-sandbox mode without a workspace temp directory,
\* probe-exec starts neither the trial mkdir nor the probe and hands emit-record
\* one preflight record whose command is `mkdir -p <attempted>`, whose target is
\* the attempted path and whose stderr text is the root-cause message; it exits
\* 0 when emit-record wrote the record, and 1 with nothing written when
\* emit-record failed.
C10_NoTmpdirRecord ==
    NoTmpdir =>
      /\ spawned = <<>>
      /\ pe_pc \in {"tmpdir_error", "exited"}
      /\ pe_pc = "exited" =>
           LET e == pe_tmpdir.last_error[1] IN
           /\ Len(emitted) = 1
           /\ emitted[1].category = "preflight"
           /\ emitted[1].verb = "mktemp"
           /\ emitted[1].command = << <<"mkdir">>, <<"-p">>, e.attempted >>
           /\ emitted[1].target = e.attempted
           /\ emitted[1].stderr_snippet = e.message
           /\ IF pe_stdout # <<>>
              THEN /\ pe_exit = 0
                   /\ Len(pe_stdout) = 1
                   /\ pe_stdout[1].value.command = emitted[1].command
                   /\ pe_stdout[1].value.stderr_snippet = e.message
              ELSE pe_exit = 1

C10_Witness ==
    /\ entry = "probe-exec"
    /\ NoTmpdir
    /\ pe_pc = "exited"
    /\ pe_exit = 0
    /\ Len(pe_stdout) = 1

\* C10 as stated: without a workspace temp directory probe-exec always exits 0
\* with the record written.
C10_AsStated ==
    (NoTmpdir /\ pe_pc = "exited") =>
      /\ spawned = <<>>
      /\ Len(emitted) = 1
      /\ pe_exit = 0
      /\ Len(pe_stdout) = 1

(***************************************************************************)
(* The planner (plan_for_mode) and bin/detect_stack.rs on their own        *)
(***************************************************************************)
PlanPlatforms == {"Linux", "Darwin", "FreeBSD"}
PlanProbePaths == { probes_root \o <<"good.sh">>, outside_script }

\* None of the three binaries above is running.
MatrixIdle ==
    /\ entry = "none"
    /\ MODES = <<>>
    /\ PROBES = <<>>
    /\ platform = "Linux"
    /\ workspace_writable = TRUE
    /\ emit_record_ok = TRUE
    /\ mpc = "none"
    /\ probes = <<>>
    /\ modes = <<>>
    /\ mi = 1
    /\ pj = 1
    /\ errors = <<>>
    /\ stdout = <<>>
    /\ stderr = <<>>
    /\ attempted = <<>>
    /\ exit_code = -1
    /\ summary = <<>>
    /\ outcomes = <<>>
    /\ pe_pc = "idle"
    /\ pe_args = [run_mode |-> "", probe_name |-> <<>>]
    /\ pe_probe = <<>>
    /\ pe_tmpdir = [path |-> <<>>, last_error |-> <<>>]
    /\ pe_plan = <<>>
    /\ pe_stdout = <<>>
    /\ pe_err = <<>>
    /\ pe_exit = -1
    /\ spawned = <<>>
    /\ emitted = <<>>
    /\ scratch = {}

hostVars == <<entry, MODES, PROBES, platform, workspace_writable, emit_record_ok>>

\* detect-stack run(): the sandbox_mode field of the StackInfo it prints.
detect_stack(run_mode_raw, env_value) ==
    LET rm == RunMode_try_from(run_mode_raw) IN
    IF ~rm.ok THEN rm
    ELSE LET v == sandbox_stack_value(rm.val, sandbox_override_from_env(env_value))
         IN Ok([sandbox_mode |-> v.val])

PlanInit ==
    /\ MatrixIdle
    /\ external_cli_present \in BOOLEAN
    /\ pl_in \in { <<i>> : i \in [requested_mode : ModeNames, platform : PlanPlatforms,
                                  probe_path : PlanProbePaths,
                                  FENCE_SANDBOX_MODE : SandboxModeEnv] }
    /\ pl_calls = <<>>
    /\ ds_run = <<>>
    /\ LoaderIdle

\* One call of plan_for_mode with the arguments at hand, on the host as it is.
Plan_Call ==
    /\ pl_in # <<>>
    /\ Len(pl_calls) < MaxCalls
    /\ pl_calls' = Append(pl_calls,
          [present |-> external_cli_present,
           result |-> plan_for_mode(pl_in[1].requested_mode, pl_in[1].platform,
                                    pl_in[1].probe_path,
                                    sandbox_override_from_env(pl_in[1].FENCE_SANDBOX_MODE))])
    /\ UNCHANGED <<hostVars, external_cli_present, mVars, peVars, pl_in, ds_run, loaderVars>>

\* Between calls the external CLI is installed or removed.
Host_Change ==
    /\ pl_in # <<>>
    /\ external_cli_present' = ~external_cli_present
    /\ UNCHANGED <<hostVars, mVars, peVars, auxVars>>

\* One run of detect-stack with the run mode as its argument.
DetectStack_Run ==
    /\ pl_in # <<>>
    /\ ds_run = <<>>
    /\ ds_run' = << detect_stack(pl_in[1].requested_mode, pl_in[1].FENCE_SANDBOX_MODE) >>
    /\ UNCHANGED <<hostVars, external_cli_present, mVars, peVars, pl_in, pl_calls, loaderVars>>

PlanNext ==
    \/ Plan_Call
    \/ Host_Change
    \/ DetectStack_Run

PlanSpec == PlanInit /\ [][PlanNext]_vars

(***************************************************************************)
(* Properties of the planner                                               *)
(***************************************************************************)
PlanOverride == sandbox_override_from_env(pl_in[1].FENCE_SANDBOX_MODE)
PlanCalls == 1..Len(pl_calls)

\* connectors.rs 39-44, as a table.
ConnectorOf(m) ==
    CASE m = "Baseline" -> "Ambient"
      [] m = "CodexSandbox" -> "ExternalCli"
      [] m = "CodexFull" -> "Ambient"

\* C11: each of the three run modes has exactly one connector, one of Ambient
\* and ExternalCli; the connector in every plan plan_for_mode returns is the one
\* of the plan's run mode, which is the mode that was asked for, on every
\* platform, for every probe path and override, and it is the same at every call.
C11_ConnectorFixedTotal ==
    /\ \A m \in RunMode : connector(m) \in {"Ambient", "ExternalCli"}
    /\ \A m \in RunMode : connector(m) = ConnectorOf(m)
    /\ \A k \in PlanCalls :
         pl_calls[k].result.ok =>
            /\ as_str(pl_calls[k].result.val.run_mode) = pl_in[1].requested_mode
            /\ pl_calls[k].result.val.connector = ConnectorOf(pl_calls[k].result.val.run_mode)
    /\ \A j, k \in PlanCalls :
         (pl_calls[j].result.ok /\ pl_calls[k].result.ok) =>
            pl_calls[j].result.val.connector = pl_calls[k].result.val.connector

C11_Witness ==
    /\ Len(pl_calls) = 2
    /\ pl_in[1].requested_mode = "codex-sandbox"
    /\ pl_in[1].platform = "Darwin"
    /\ PlanOverride # <<>>
    /\ pl_calls[1].result.ok
    /\ pl_calls[2].result.ok
    /\ pl_calls[2].result.val.connector = "ExternalCli"

\* C12: plan_for_mode("baseline", platform, probe_path, None) succeeds on every
\* platform, for every probe path, with or without the external CLI, and the
\* plan has connector Ambient, no preflight, and the probe path as program with
\* no arguments.
C12_BaselinePlan ==
    (pl_in # <<>> /\ pl_in[1].requested_mode = "baseline" /\ PlanOverride = <<>>) =>
       \A k \in PlanCalls :
          /\ pl_calls[k].result.ok
          /\ pl_calls[k].result.val.connector = "Ambient"
          /\ pl_calls[k].result.val.preflight = <<>>
          /\ pl_calls[k].result.val.command.program = pl_in[1].probe_path
          /\ pl_calls[k].result.val.command.args = <<>>

C12_Witness ==
    /\ Len(pl_calls) = 1
    /\ pl_in[1].requested_mode = "baseline"
    /\ pl_in[1].platform = "FreeBSD"
    /\ pl_in[1].probe_path = outside_script
    /\ PlanOverride = <<>>
    /\ ~pl_calls[1].present
    /\ pl_calls[1].result.ok

PlatformTargetOf(p) == IF p = "Darwin" THEN "macos" ELSE "linux"

SandboxPlanShape(k) ==
    LET plan == pl_calls[k].result.val
        target == PlatformTargetOf(pl_in[1].platform)
    IN /\ plan.connector = "ExternalCli"
       /\ plan.preflight # <<>>
       /\ plan.preflight[1].platform_target = target
       /\ plan.command.program = <<external_cli_command>>
       /\ plan.command.args = << <<"sandbox">>, <<target>>, <<"--full-auto">>, <<"--">>,
                                 pl_in[1].probe_path >>
       /\ plan.command.args[Len(plan.command.args)] = pl_in[1].probe_path

\* C13 (as amended): plan_for_mode("codex-sandbox", ...) with no override
\* succeeds exactly when the external CLI is present and the platform is Darwin
\* or Linux; the plan then has connector ExternalCli, a preflight plan for the
\* platform target, and the command `<cli> sandbox <target> --full-auto --
\* <probe path>`; otherwise it fails, naming the missing tool or the platform.
C13_SandboxPlan ==
    (pl_in # <<>> /\ pl_in[1].requested_mode = "codex-sandbox" /\ PlanOverride = <<>>) =>
       \A k \in PlanCalls :
          /\ pl_calls[k].result.ok <=>
               (pl_calls[k].present /\ pl_in[1].platform \in {"Darwin", "Linux"})
          /\ pl_calls[k].result.ok => SandboxPlanShape(k)
          /\ ~pl_calls[k].result.ok =>
               pl_calls[k].result.err.kind =
                  IF pl_calls[k].present THEN "UnsupportedPlatform" ELSE "ExternalCliNotFound"

C13_Witness ==
    /\ Len(pl_calls) = 1
    /\ pl_in[1].requested_mode = "codex-sandbox"
    /\ pl_in[1].platform = "Darwin"
    /\ PlanOverride = <<>>
    /\ pl_calls[1].result.ok
    /\ pl_calls[1].result.val.command.args[2] = <<"macos">>

\* C13 as stated: the plan is yielded for any platform.
C13_AsStated ==
    (pl_in # <<>> /\ pl_in[1].requested_mode = "codex-sandbox" /\ PlanOverride = <<>>) =>
       \A k \in PlanCalls : pl_calls[k].result.ok /\ SandboxPlanShape(k)

\* Two calls with the same four arguments returned the same plan or error.
SameResult(j, k) == pl_calls[j].result = pl_calls[k].result

C14_EqualInputsEqualResults ==
    \A j, k \in PlanCalls :
       \/ SameResult(j, k)
       \/ /\ pl_in[1].requested_mode = "codex-sandbox"
          /\ pl_calls[j].present # pl_calls[k].present

\* A step that adds a planner call leaves the host and every process as it was.
C14_CallChangesNothing ==
    pl_calls' # pl_calls =>
       /\ UNCHANGED <<hostVars, external_cli_present, mVars, peVars, pl_in, ds_run, loaderVars>>
       /\ SubSeq(pl_calls', 1, Len(pl_calls)) = pl_calls

SandboxParameterOf(m, override_value) ==
    CASE m = "baseline" -> ""
      [] m = "codex-sandbox" ->
            IF override_value = <<>> THEN "workspace-write" ELSE override_value[1]
      [] m = "codex-full" ->
            IF override_value = <<>> THEN "danger-full-access" ELSE override_value[1]

C16_AsStated ==
    (ds_run # <<>> /\ ds_run[1].ok) =>
       /\ PlanOverride # <<>> => ds_run[1].val.sandbox_mode = PlanOverride
       /\ (PlanOverride = <<>> /\ pl_in[1].requested_mode = "baseline") =>
             ds_run[1].val.sandbox_mode = <<>>

(***************************************************************************)
(* catalog/index.rs: CapabilityIndex::load                                 *)
(*                                                                         *)
(* A string is the sequence of its pieces: a run of characters of          *)
(* [A-Za-z0-9_.-] is one piece, every other character is a piece of its    *)
(* own.  The empty string is <<>>.                                         *)
(***************************************************************************)
\* Longest capability list of a catalog document.
MaxCaps == 2

DEFAULT_SCHEMA_VERSION == <<"sandbox_catalog_v1">>

\* The characters outside [A-Za-z0-9_.-] that occur in the documents.
OtherChars == {" ", ",", "/"}

\* chars().all(|c| c.is_ascii_alphanumeric() || matches!(c, '_' | '.' | '-'))
all_version_chars(s) == \A k \in 1..Len(s) : s[k] \notin OtherChars

RECURSIVE trim_start(_)
trim_start(s) == IF s # <<>> /\ Head(s) = " " THEN trim_start(Tail(s)) ELSE s

RECURSIVE trim_end(_)
trim_end(s) ==
    IF s # <<>> /\ s[Len(s)] = " " THEN trim_end(SubSeq(s, 1, Len(s) - 1)) ELSE s

trim(s) == trim_end(trim_start(s))

\* str::split(','): the fields between the commas, empty ones included.
RECURSIVE split_comma(_, _)
split_comma(s, field) ==
    IF s = <<>> THEN <<field>>
    ELSE IF Head(s) = "," THEN <<field>> \o split_comma(Tail(s), <<>>)
    ELSE split_comma(Tail(s), Append(field, Head(s)))

allowed_schema_versions_pinned(env) == {DEFAULT_SCHEMA_VERSION}

\* env is FENCE_ALLOWED_CATALOG_SCHEMAS: <<>> when unset, <<raw>> when set.
allowed_schema_versions(env) ==
    LET fields == IF env = <<>> THEN <<>> ELSE split_comma(env[1], <<>>)
    IN {DEFAULT_SCHEMA_VERSION} \cup
       { trim(fields[k]) : k \in { j \in 1..Len(fields) : trim(fields[j]) # <<>> } }

validate_schema_version(schema_version, env) ==
    IF schema_version = <<>> THEN Err("schema_version must not be empty")
    ELSE IF ~all_version_chars(schema_version)
    THEN Err("schema_version must match ^[A-Za-z0-9_.-]+$")
    ELSE IF schema_version \notin allowed_schema_versions(env)
    THEN Err("schema_version not in allowed set")
    ELSE Ok(<<>>)

validate_catalog_key(key) ==
    IF key = <<>> THEN Err("catalog.key must not be empty")
    ELSE IF ~all_version_chars(key) THEN Err("catalog.key must match ^[A-Za-z0-9_.-]+$")
    ELSE Ok(<<>>)

validate_catalog_metadata(meta) ==
    LET k == validate_catalog_key(meta.key) IN
    IF ~k.ok THEN k
    ELSE IF trim(meta.title) = <<>> THEN Err("catalog.title must not be empty")
    ELSE IF \E j \in 1..Len(meta.labels) : trim(meta.labels[j]) = <<>>
    THEN Err("catalog.labels must not contain empty entries")
    ELSE Ok(<<>>)

\* The loop of build_index from capability k on; map is the index so far.
RECURSIVE index_from(_, _, _)
index_from(catalog, k, map) ==
    IF k > Len(catalog.capabilities) THEN Ok(map)
    ELSE LET cap == catalog.capabilities[k] IN
         IF trim(cap.id) = <<>> THEN Err("encountered capability with no id")
         ELSE IF cap.id \in DOMAIN map THEN Err("duplicate capability id")
         ELSE IF cap.category \notin catalog.scope.categories
         THEN Err("capability references unknown category")
         ELSE IF cap.layer \notin { catalog.scope.policy_layers[j] :
                                      j \in 1..Len(catalog.scope.policy_layers) }
         THEN Err("capability references unknown layer")
         ELSE IF \E j \in 1..Len(cap.sources) : cap.sources[j] \notin catalog.docs
         THEN Err("capability references unknown doc")
         ELSE index_from(catalog, k + 1, (cap.id :> cap) @@ map)

build_index_lenient(catalog) ==
    Ok([i \in { catalog.capabilities[k].id : k \in 1..Len(catalog.capabilities) } |->
          catalog.capabilities[CHOOSE k \in 1..Len(catalog.capabilities) :
                                  catalog.capabilities[k].id = i]])

build_index(catalog) ==
    IF catalog.capabilities = <<>> THEN Err("catalog contains no capabilities")
    ELSE IF \E j \in 1..Len(catalog.scope.policy_layers) :
               trim(catalog.scope.policy_layers[j]) = <<>>
    THEN Err("policy_layers must not contain empty ids")
    ELSE IF catalog.scope.categories = {}
    THEN Err("catalog scope must define at least one category")
    ELSE index_from(catalog, 1, <<>>)

\* CapabilityIndex::load on the document load_catalog_from_path parsed.
load(catalog, env) ==
    LET v == validate_schema_version(catalog.schema_version, env)
        m == validate_catalog_metadata(catalog.catalog)
        by_id == build_index(catalog)
    IN IF ~v.ok THEN v
       ELSE IF ~m.ok THEN m
       ELSE IF ~by_id.ok THEN by_id
       ELSE Ok([catalog_key |-> catalog.catalog.key, catalog |-> catalog,
                by_id |-> by_id.val])

\* The documents and environments load is given.
CatalogIds == { <<"cap_a">>, <<"cap_b">>, <<>>, <<" ">> }
CatalogRefs ==
    { [category |-> "filesystem", layer |-> <<"os_sandbox">>, sources |-> <<>>],
      [category |-> "network", layer |-> <<"os_sandbox">>, sources |-> <<>>],
      [category |-> "filesystem", layer |-> <<"agent_runtime">>, sources |-> <<>>],
      [category |-> "filesystem", layer |-> <<"os_sandbox">>, sources |-> <<"doc1">>] }
CatalogCaps ==
    { [id |-> i, category |-> r.category, layer |-> r.layer, sources |-> r.sources] :
        i \in CatalogIds, r \in CatalogRefs }
CatalogScopes ==
    { [policy_layers |-> << <<"os_sandbox">>, <<"agent_runtime">> >>,
       categories |-> {"filesystem", "network"}, docs |-> {"doc1"}],
      [policy_layers |-> << <<"os_sandbox">> >>,
       categories |-> {"filesystem"}, docs |-> {}],
      [policy_layers |-> << <<"os_sandbox">>, <<" ">> >>,
       categories |-> {"filesystem", "network"}, docs |-> {"doc1"}],
      [policy_layers |-> << <<"os_sandbox">> >>,
       categories |-> {}, docs |-> {}] }
CatalogMetas ==
    { [key |-> <<"macos_codex_v1">>, title |-> <<"catalog">>, labels |-> <<>>],
      [key |-> <<"macos", "/", "codex">>, title |-> <<"catalog">>, labels |-> <<>>],
      [key |-> <<"macos_codex_v1">>, title |-> <<" ">>, labels |-> <<>>],
      [key |-> <<"macos_codex_v1">>, title |-> <<"catalog">>, labels |-> << <<" ">> >>] }
CatalogVersions ==
    { DEFAULT_SCHEMA_VERSION, <<"custom_catalog_v1">>, <<"custom", " ", "v1">>, <<>> }
CatalogEnvs ==
    { <<>>,
      << <<" ", "custom_catalog_v1", " ", ",", ",", "other_v2">> >>,
      << <<"custom", " ", "v1">> >> }
\* A document has at most one fault in its header: every version meets every
\* override list under valid metadata, every metadata meets the default version.
CatalogHeaders ==
    LET valid == [key |-> <<"macos_codex_v1">>, title |-> <<"catalog">>, labels |-> <<>>]
    IN { [schema_version |-> v, catalog |-> valid, env |-> e] :
           v \in CatalogVersions, e \in CatalogEnvs }
       \cup { [schema_version |-> DEFAULT_SCHEMA_VERSION, catalog |-> m, env |-> <<>>] :
                m \in CatalogMetas }

RECURSIVE SeqsUpTo(_, _)
SeqsUpTo(S, n) ==
    IF n = 0 THEN { <<>> }
    ELSE LET shorter == SeqsUpTo(S, n - 1)
         IN shorter \cup { Append(q, x) : q \in { r \in shorter : Len(r) = n - 1 }, x \in S }

CatalogInit ==
    /\ MatrixIdle
    /\ external_cli_present = TRUE
    /\ PlanIdle
    /\ cat_in \in { << [catalog |-> [schema_version |-> h.schema_version,
                                     catalog |-> h.catalog, scope |-> sc,
                                     docs |-> sc.docs, capabilities |-> caps],
                        FENCE_ALLOWED_CATALOG_SCHEMAS |-> h.env] >> :
                      h \in CatalogHeaders, sc \in CatalogScopes,
                      caps \in SeqsUpTo(CatalogCaps, MaxCaps) }
    /\ cat_out = <<>>
    /\ sl_in = <<>>
    /\ sl_pc = "idle"
    /\ sl_schema = <<>>
    /\ sl_trace = <<>>
    /\ sl_out = <<>>
    /\ ToolIdle

\* One call of CapabilityIndex::load.
Catalog_Load ==
    /\ cat_in # <<>>
    /\ cat_out = <<>>
    /\ cat_out' = << load(cat_in[1].catalog, cat_in[1].FENCE_ALLOWED_CATALOG_SCHEMAS) >>
    /\ UNCHANGED <<envVars, mVars, peVars, pl_in, pl_calls, ds_run, cat_in,
                   sl_in, sl_pc, sl_schema, sl_trace, sl_out, toolVars>>

CatalogNext == Catalog_Load

CatalogSpec == CatalogInit /\ [][CatalogNext]_vars

(***************************************************************************)
(* Properties of CapabilityIndex::load                                     *)
(***************************************************************************)
CatDoc == cat_in[1].catalog
CatEnv == cat_in[1].FENCE_ALLOWED_CATALOG_SCHEMAS
CatCaps == 1..Len(CatDoc.capabilities)
LayerIds == { CatDoc.scope.policy_layers[j] : j \in 1..Len(CatDoc.scope.policy_layers) }

\* The version is accepted, the key, title and labels are valid.
HeaderValid ==
    /\ validate_schema_version(CatDoc.schema_version, CatEnv).ok
    /\ validate_catalog_metadata(CatDoc.catalog).ok

\* Every policy layer of the scope has an id that is not blank.
ScopeLayersNamed == \A l \in LayerIds : trim(l) # <<>>

ReferencesResolve ==
    \A k \in CatCaps :
       /\ CatDoc.capabilities[k].category \in CatDoc.scope.categories
       /\ CatDoc.capabilities[k].layer \in LayerIds
       /\ \A j \in 1..Len(CatDoc.capabilities[k].sources) :
             CatDoc.capabilities[k].sources[j] \in CatDoc.docs

IdsDistinct ==
    \A j, k \in CatCaps : j # k => CatDoc.capabilities[j].id # CatDoc.capabilities[k].id

\* C17 (as amended): for a catalog document with an accepted schema_version,
\* valid key, title and labels and no blank policy-layer id, load succeeds if
\* and only if the document has at least one capability, every capability's
\* category, layer and source doc keys are declared in the document, and no
\* capability id is empty or blank (white space only) or occurs twice.  A
\* successful load indexes exactly the document's capabilities by id; a failed
\* load returns an error and no index.
C17_LoadIffReferencesResolve ==
    cat_out # <<>> =>
       /\ (HeaderValid /\ ScopeLayersNamed) =>
             (cat_out[1].ok <=>
                 /\ CatCaps # {}
                 /\ ReferencesResolve
                 /\ \A k \in CatCaps : trim(CatDoc.capabilities[k].id) # <<>>
                 /\ IdsDistinct)
       /\ cat_out[1].ok =>
             /\ DOMAIN cat_out[1].val.by_id = { CatDoc.capabilities[k].id : k \in CatCaps }
             /\ \A k \in CatCaps :
                   cat_out[1].val.by_id[CatDoc.capabilities[k].id] = CatDoc.capabilities[k]
             /\ cat_out[1].val.catalog = CatDoc
       /\ ~cat_out[1].ok => DOMAIN cat_out[1] = {"ok", "err"}

C17_Witness ==
    /\ cat_out # <<>>
    /\ cat_out[1].ok
    /\ Len(CatDoc.capabilities) = 2
    /\ \E k \in CatCaps : CatDoc.capabilities[k].sources # <<>>

\* C17 as stated: for an otherwise valid document load succeeds if and only if
\* the references resolve and no capability id is empty or occurs twice.
C17_AsStated ==
    (cat_out # <<>> /\ HeaderValid /\ ScopeLayersNamed) =>
       (cat_out[1].ok <=>
           /\ ReferencesResolve
           /\ \A k \in CatCaps : CatDoc.capabilities[k].id # <<>>
           /\ IdsDistinct)

\* The document passes every check of load other than the allow-list.
ValidButForAllowList ==
    /\ CatDoc.schema_version # <<>>
    /\ all_version_chars(CatDoc.schema_version)
    /\ validate_catalog_metadata(CatDoc.catalog).ok
    /\ build_index(CatDoc).ok

schema_dir == repo_root \o <<"catalogs">>
nested_path == schema_dir \o <<"boundary.json">>

\* Path::is_absolute / base.join(schema_path); canonicalize leaves these paths as
\* they are, or fails and the path is used as it is.
resolved_path(schema_path) ==
    IF schema_path.abs THEN schema_path.path ELSE schema_dir \o schema_path.path

\* boundary/schema_catalog.rs: BoundarySchemaDescriptor::schema_path(&self, repo_root)
BoundarySchemaDescriptor_schema_path(descriptor, root) ==
    IF descriptor.schema_path[1].abs THEN descriptor.schema_path[1].path
    ELSE root \o descriptor.schema_path[1].path

\* File::open + serde_json::from_reader
read_json(file, what) ==
    IF file.state = "missing" THEN Err("opening " \o what)
    ELSE IF file.state = "garbage" THEN Err("parsing " \o what)
    ELSE Ok(file)

descriptor_has_schema(doc) == doc.schema # <<>> \/ doc.schema_path # <<>>

\* The keys of a descriptor a contract can require.
descriptor_keys(doc) ==
    (IF doc.schema # <<>> THEN {"schema"} ELSE {})
       \cup (IF doc.schema_path # <<>> THEN {"schema_path"} ELSE {})

validate_descriptor_warn(contract, descriptor) == Ok(<<>>)

\* The contract is read, compiled and the descriptor validated against it.
validate_descriptor(contract, descriptor) ==
    LET c == read_json(contract, "descriptor contract") IN
    IF ~c.ok THEN c
    ELSE IF ~c.val.compiles THEN Err("compiling descriptor contract")
    ELSE IF ~(c.val.required \subseteq descriptor_keys(descriptor))
    THEN Err("schema descriptor failed validation")
    ELSE Ok(<<>>)

\* schema_loader.rs 88-125: the schema a descriptor embeds or points at.
resolve_schema(in, descriptor) ==
    IF descriptor.schema_path # <<>> /\ descriptor.schema_path[1].is_str
    THEN read_json(IF resolved_path(descriptor.schema_path[1]) = nested_path
                   THEN in.nested
                   ELSE [state |-> "missing"],
                   "schema referenced by descriptor")
    ELSE IF descriptor.schema # <<>> THEN Ok(descriptor.schema[1])
    ELSE Err("schema descriptor missing 'schema' or 'schema_path' field")

extract_schema_version_any_chars(schema) ==
    IF schema.const = <<>> \/ ~schema.const[1].is_str THEN <<>>
    ELSE << schema.const[1].s >>

extract_schema_version(schema) ==
    IF schema.const = <<>> \/ ~schema.const[1].is_str THEN <<>>
    ELSE IF all_version_chars(schema.const[1].s) THEN << schema.const[1].s >>
    ELSE <<>>

\* schema_loader.rs 127-138
check_version(schema, allowed_versions) ==
    LET schema_version == extract_schema_version(schema) IN
    IF schema_version = <<>> THEN Err("schema missing schema_version const")
    ELSE IF allowed_versions # <<>> /\ schema_version[1] \notin allowed_versions[1]
    THEN Err("schema_version not in allowed set")
    ELSE Ok(schema_version[1])

\* schema_loader.rs 140-145
compile_schema(schema) ==
    IF schema.compiles THEN Ok([compiled |-> schema]) ELSE Err("compiling schema")

\* The files and options load_json_schema is given.
SchemaVersions ==
    { <<"boundary_v1">>, <<"boundary_v2">>, <<"boundary", " ", "v1">>, <<>> }
SchemaConsts ==
    { <<>>, << [is_str |-> FALSE, s |-> <<>>] >> }
       \cup { << [is_str |-> TRUE, s |-> v] >> : v \in SchemaVersions }
JsonDoc(schema, schema_path, const, compiles) ==
    [state |-> "json", schema |-> schema, schema_path |-> schema_path,
     const |-> const, compiles |-> compiles]
SchemaDocs ==
    { JsonDoc(<<>>, <<>>, c, TRUE) : c \in SchemaConsts }
       \cup { JsonDoc(<<>>, <<>>, << [is_str |-> TRUE, s |-> <<"boundary_v1">>] >>, FALSE) }
InlineSchemas ==
    { d \in SchemaDocs : d.const = <<>> \/ (d.const[1].is_str /\ all_version_chars(d.const[1].s)
                                            /\ d.const[1].s # <<>>) }
SchemaPathValues ==
    { [is_str |-> FALSE, abs |-> FALSE, path |-> <<>>],
      [is_str |-> TRUE, abs |-> FALSE, path |-> <<"boundary.json">>],
      [is_str |-> TRUE, abs |-> TRUE, path |-> nested_path],
      [is_str |-> TRUE, abs |-> FALSE, path |-> <<"gone.json">>] }
Descriptors ==
    { JsonDoc(i, sp, <<>>, TRUE) :
        i \in {<<>>} \cup { <<d>> : d \in InlineSchemas },
        sp \in {<<>>} \cup { <<v>> : v \in SchemaPathValues } }
UnreadableFiles == { [state |-> "missing"], [state |-> "garbage"] }
ContractFiles ==
    UnreadableFiles
       \cup { [state |-> "json", compiles |-> FALSE, required |-> {}],
              [state |-> "json", compiles |-> TRUE, required |-> {}],
              [state |-> "json", compiles |-> TRUE, required |-> {"schema_path"}] }

SchemaInit ==
    /\ MatrixIdle
    /\ external_cli_present = TRUE
    /\ PlanIdle
    /\ cat_in = <<>>
    /\ cat_out = <<>>
    /\ sl_in \in { <<i>> : i \in
          [target : UnreadableFiles \cup SchemaDocs \cup Descriptors,
           nested : {[state |-> "garbage"]} \cup SchemaDocs,
           descriptor_schema_path : {<<>>} \cup { <<c>> : c \in ContractFiles },
           allowed_versions : { <<>>, << {<<"boundary_v1">>} >>, << {} >> }] }
    /\ sl_pc = "start"
    /\ sl_schema = <<>>
    /\ sl_trace = <<>>
    /\ sl_out = <<>>
    /\ ToolIdle

\* A step of load_json_schema that ran: on an error the function returns it.
SchemaStep(step, r, next, schema_value) ==
    /\ sl_trace' = Append(sl_trace, step)
    /\ IF r.ok
       THEN sl_pc' = next /\ sl_schema' = schema_value /\ sl_out' = sl_out
       ELSE sl_pc' = "done" /\ sl_schema' = sl_schema /\ sl_out' = <<r>>
    /\ UNCHANGED <<envVars, mVars, peVars, pl_in, pl_calls, ds_run, cat_in, cat_out, sl_in,
                   toolVars>>

\* schema_loader.rs 42-45
Schema_Parse ==
    /\ sl_pc = "start"
    /\ LET r == read_json(sl_in[1].target, "schema")
       IN SchemaStep("parse_target", r, "descriptor", IF r.ok THEN <<r.val>> ELSE <<>>)

\* schema_loader.rs 47-86
Schema_Descriptor ==
    /\ sl_pc = "descriptor"
    /\ IF sl_in[1].descriptor_schema_path # <<>> /\ descriptor_has_schema(sl_in[1].target)
       THEN SchemaStep("validate_descriptor",
                       validate_descriptor(sl_in[1].descriptor_schema_path[1],
                                           sl_in[1].target),
                       "resolve", sl_schema)
       ELSE /\ sl_pc' = "resolve"
            /\ UNCHANGED <<envVars, mVars, peVars, pl_in, pl_calls, ds_run, cat_in, cat_out,
                           sl_in, sl_schema, sl_trace, sl_out, toolVars>>

\* schema_loader.rs 88-125
Schema_Resolve ==
    /\ sl_pc = "resolve"
    /\ IF descriptor_has_schema(sl_in[1].target)
       THEN LET r == resolve_schema(sl_in[1], sl_in[1].target)
            IN SchemaStep("resolve_schema", r, "version",
                          IF r.ok THEN <<r.val>> ELSE <<>>)
       ELSE /\ sl_pc' = "version"
            /\ UNCHANGED <<envVars, mVars, peVars, pl_in, pl_calls, ds_run, cat_in, cat_out,
                           sl_in, sl_schema, sl_trace, sl_out, toolVars>>

\* schema_loader.rs 127-138
Schema_Version ==
    /\ sl_pc = "version"
    /\ SchemaStep("check_version", check_version(sl_schema[1], sl_in[1].allowed_versions),
                  "compile", sl_schema)

\* schema_loader.rs 140-145
Schema_Compile ==
    /\ sl_pc = "compile"
    /\ sl_trace' = Append(sl_trace, "compile_schema")
    /\ sl_out' = << compile_schema(sl_schema[1]) >>
    /\ sl_pc' = "done"
    /\ UNCHANGED <<envVars, mVars, peVars, pl_in, pl_calls, ds_run, cat_in, cat_out, sl_in,
                   sl_schema, toolVars>>

\* The descriptor's schema path is asked for through BoundarySchemaDescriptor.
Descriptor_SchemaPath ==
    /\ sl_in # <<>>
    /\ bd_path = <<>>
    /\ sl_in[1].target.state = "json"
    /\ sl_in[1].target.schema_path # <<>>
    /\ sl_in[1].target.schema_path[1].is_str
    /\ bd_path' = << BoundarySchemaDescriptor_schema_path(sl_in[1].target, repo_root) >>
    /\ UNCHANGED <<envVars, mVars, peVars, pl_in, pl_calls, ds_run, cat_in, cat_out, sl_in,
                   sl_pc, sl_schema, sl_trace, sl_out, cov_in, cov_out, ns_in, ns_out,
                   cli_in, cli_out, fb_in, fb_out>>

SchemaNext ==
    \/ Descriptor_SchemaPath
    \/ Schema_Parse
    \/ Schema_Descriptor
    \/ Schema_Resolve
    \/ Schema_Version
    \/ Schema_Compile

SchemaSpec == SchemaInit /\ [][SchemaNext]_vars

(***************************************************************************)
(* Properties of load_json_schema                                          *)
(***************************************************************************)
SlTarget == sl_in[1].target
StepAt(step) == { k \in 1..Len(sl_trace) : sl_trace[k] = step }
SlFailed == sl_pc = "done" /\ sl_out # <<>> /\ ~sl_out[1].ok
SlLoaded == sl_pc = "done" /\ sl_out # <<>> /\ sl_out[1].ok

\* The target is a descriptor and a descriptor contract was supplied.
DescriptorUnderContract ==
    /\ SlTarget.state = "json"
    /\ SlTarget.schema # <<>> \/ SlTarget.schema_path # <<>>
    /\ sl_in[1].descriptor_schema_path # <<>>

\* The contract cannot be read or compiled, or the descriptor lacks a key the
\* contract requires.
ContractFailure ==
    LET c == sl_in[1].descriptor_schema_path[1] IN
    \/ c.state # "json"
    \/ ~c.compiles
    \/ \E key \in c.required :
          \/ key = "schema" /\ SlTarget.schema = <<>>
          \/ key = "schema_path" /\ SlTarget.schema_path = <<>>

\* C19: when the target is a descriptor and a contract path was supplied, the
\* descriptor is validated against the contract before the schema is resolved,
\* version-checked or compiled; when the validation fails the load returns an
\* error and none of these three steps is taken.
C19_ContractBeforeSchema ==
    DescriptorUnderContract =>
       /\ \A k \in StepAt("resolve_schema") \cup StepAt("check_version")
                     \cup StepAt("compile_schema") :
             \E j \in StepAt("validate_descriptor") : j < k
       /\ (ContractFailure /\ StepAt("validate_descriptor") # {}) =>
             /\ SlFailed
             /\ sl_trace = <<"parse_target", "validate_descriptor">>
             /\ sl_schema = <<SlTarget>>
       /\ SlLoaded => ~ContractFailure

C19_Witness ==
    /\ DescriptorUnderContract
    /\ SlFailed
    /\ sl_out[1].err = "schema descriptor failed validation"
    /\ SlTarget.schema # <<>>
    /\ sl_in[1].allowed_versions = <<>>

\* The schema the loader has to check: the file schema_path names, else the
\* embedded schema, else the target itself.
ResolvedSchema ==
    IF SlTarget.schema_path # <<>> /\ SlTarget.schema_path[1].is_str
    THEN sl_in[1].nested
    ELSE IF SlTarget.schema # <<>> THEN SlTarget.schema[1]
    ELSE SlTarget

\* The resolved schema declares no version: nothing at the pointer, a value
\* that is not a string, or a string with a character outside [A-Za-z0-9_.-].
NoDeclaredVersion ==
    \/ ResolvedSchema.const = <<>>
    \/ ~ResolvedSchema.const[1].is_str
    \/ \E k \in 1..Len(ResolvedSchema.const[1].s) :
          ResolvedSchema.const[1].s[k] \in {" ", ",", "/"}

\* C20: once the schema is resolved the load fails when the schema declares no
\* version at /properties/schema_version/const or the version has a character
\* outside [A-Za-z0-9_.-]; with an allowed-version set it fails for every
\* version not in the set; the schema is compiled, and a compiled schema
\* returned, only after both checks passed.
C20_VersionChecks ==
    /\ (sl_pc \in {"compile", "done"} /\ StepAt("check_version") # {}) =>
          /\ sl_schema = <<ResolvedSchema>>
          /\ NoDeclaredVersion =>
                /\ SlFailed
                /\ sl_out[1].err = "schema missing schema_version const"
          /\ (~NoDeclaredVersion /\ sl_in[1].allowed_versions # <<>>
                /\ ResolvedSchema.const[1].s \notin sl_in[1].allowed_versions[1]) =>
                /\ SlFailed
                /\ sl_out[1].err = "schema_version not in allowed set"
    /\ \A k \in StepAt("compile_schema") :
          /\ k > 1 /\ sl_trace[k - 1] = "check_version"
          /\ ~NoDeclaredVersion
          /\ sl_in[1].allowed_versions # <<>> =>
                ResolvedSchema.const[1].s \in sl_in[1].allowed_versions[1]
    /\ SlLoaded =>
          /\ StepAt("compile_schema") # {}
          /\ sl_out[1].val.compiled = ResolvedSchema

C20_Witness ==
    /\ SlFailed
    /\ sl_out[1].err = "schema missing schema_version const"
    /\ ResolvedSchema.const # <<>>
    /\ ResolvedSchema.const[1].is_str
    /\ SlTarget.schema_path # <<>>

\* C21 as stated: wherever the code resolves a descriptor's relative
\* schema_path, in load_json_schema and in BoundarySchemaDescriptor::schema_path,
\* the result is the path under the directory that holds the descriptor file.
C21_AsStated ==
    /\ \A sp \in SchemaPathValues :
          (sp.is_str /\ ~sp.abs) => resolved_path(sp) = schema_dir \o sp.path
    /\ (bd_path # <<>> /\ ~sl_in[1].target.schema_path[1].abs) =>
          bd_path[1] = schema_dir \o sl_in[1].target.schema_path[1].path

(***************************************************************************)
(* Coverage map: bin/codex_fence.rs run_coverage_map and the builder it    *)
(* calls.  The builder is in the library crate; it is written here from    *)
(* its contract: one entry per capability of the index, listing the probes *)
(* that declare the capability as their primary one.                       *)
(***************************************************************************)
\* Most probe scripts of a probes directory.
MaxCovProbes == 2

CovCapabilities == {"cap_a", "cap_b"}
\* A capability id no catalog declares.
CovUnknownCapability == "cap_x"

ProbeName(i) == "p" \o ToString(i)

\* build(index, probes): ids are the capability ids of the index; probes are
\* the coverage probes with their id and primary_capability_id.
build_probe_coverage_map(ids, coverage_probes) ==
    [c \in ids |->
       LET declaring == SelectSeq(coverage_probes,
                                  LAMBDA q : q.primary_capability_id = c)
       IN [has_probe |-> declaring # <<>>,
           probe_ids |-> [k \in 1..Len(declaring) |-> declaring[k].id]]]

run_coverage_map_all_probed(args, ids, coverage_probes) ==
    Ok([coverage |-> [c \in ids |-> [has_probe |-> TRUE,
                                     probe_ids |-> [k \in 1..Len(coverage_probes) |->
                                                      coverage_probes[k].id]]],
        written_to |-> "stdout"])

\* bin/codex_fence.rs run_coverage_map: args are the words after --coverage-map.
run_coverage_map(args, ids, coverage_probes) ==
    IF Len(args) > 1
    THEN Err("--coverage-map accepts at most one optional output path")
    ELSE Ok([coverage |-> build_probe_coverage_map(ids, coverage_probes),
             written_to |-> IF args = <<>> THEN "stdout" ELSE args[1]])

CovProbeLists ==
    UNION { [1..n -> CovCapabilities \cup {CovUnknownCapability}] : n \in 0..MaxCovProbes }

CoverageInit ==
    /\ MatrixIdle
    /\ external_cli_present = TRUE
    /\ PlanIdle
    /\ cat_in = <<>> /\ cat_out = <<>>
    /\ sl_in = <<>> /\ sl_pc = "idle" /\ sl_schema = <<>> /\ sl_trace = <<>> /\ sl_out = <<>>
    /\ bd_path = <<>>
    /\ cov_in \in { << [args |-> a, capability_ids |-> ids,
                        probes |-> [k \in 1..Len(pr) |->
                                      [id |-> ProbeName(k), primary_capability_id |-> pr[k]]]] >> :
                      a \in { <<>>, <<"out.json">>, <<"out.json", "extra">> },
                      ids \in { {"cap_a"}, CovCapabilities },
                      pr \in CovProbeLists }
    /\ cov_out = <<>>
    /\ ns_in = <<>> /\ ns_out = <<>>
    /\ cli_in = <<>> /\ cli_out = <<>>
    /\ fb_in = <<>> /\ fb_out = <<>>

\* codex-fence --coverage-map
Coverage_Build ==
    /\ cov_in # <<>>
    /\ cov_out = <<>>
    /\ cov_out' = << run_coverage_map(cov_in[1].args, cov_in[1].capability_ids,
                                      cov_in[1].probes) >>
    /\ UNCHANGED <<envVars, mVars, peVars, pl_in, pl_calls, ds_run, cat_in, cat_out,
                   sl_in, sl_pc, sl_schema, sl_trace, sl_out, bd_path, cov_in,
                   ns_in, ns_out, cli_in, cli_out, fb_in, fb_out>>

CoverageSpec == CoverageInit /\ [][Coverage_Build]_vars

\* The probes of the set that declare capability c as their primary one.
DeclaringProbes(c) ==
    { cov_in[1].probes[k].id :
        k \in { j \in 1..Len(cov_in[1].probes) :
                  cov_in[1].probes[j].primary_capability_id = c } }

\* C22: the coverage map has an entry for every capability of the index and
\* for no other id; an entry's has_probe is true exactly when some probe
\* declares the capability as its primary one, and its probe_ids are exactly
\* those probes, each once.
C22_CoverageEntries ==
    (cov_out # <<>> /\ cov_out[1].ok) =>
       LET coverage == cov_out[1].val.coverage IN
       /\ DOMAIN coverage = cov_in[1].capability_ids
       /\ \A c \in DOMAIN coverage :
            /\ coverage[c].has_probe <=> DeclaringProbes(c) # {}
            /\ { coverage[c].probe_ids[k] : k \in 1..Len(coverage[c].probe_ids) }
                  = DeclaringProbes(c)
            /\ Len(coverage[c].probe_ids) = Cardinality(DeclaringProbes(c))
            /\ coverage[c].has_probe <=> coverage[c].probe_ids # <<>>

C22_Witness ==
    /\ cov_out # <<>>
    /\ cov_out[1].ok
    /\ cov_in[1].capability_ids = CovCapabilities
    /\ cov_out[1].val.coverage["cap_a"].has_probe
    /\ ~cov_out[1].val.coverage["cap_b"].has_probe
    /\ \E k \in 1..Len(cov_in[1].probes) :
          cov_in[1].probes[k].primary_capability_id = CovUnknownCapability

(***************************************************************************)
(* Coverage validator: tests/second_tier.rs capability_map_sync            *)
(***************************************************************************)
TEMP_PROBE_NAMES == {"tests_fixture_probe"}

\* The order BTreeMap / BTreeSet iterate capability ids in.
CapOrder == <<"cap_a", "cap_b", "cap_x">>
SortedCaps(S) == SelectSeq(CapOrder, LAMBDA c : c \in S)

RECURSIVE Concat(_)
Concat(ss) == IF ss = <<>> THEN <<>> ELSE Head(ss) \o Concat(Tail(ss))

Drift(kind, cap, probe) == [kind |-> kind, cap |-> cap, probe |-> probe]

\* load_coverage_map: has_probe is false when the flag is missing.
has_probe(e) == e.raw_has_probe # <<>> /\ e.raw_has_probe[1]

\* second_tier.rs 56-81: the probes that reach capability_to_probes / probe_to_cap.
Counted(ids, probe) ==
    /\ probe.name # <<>>
    /\ probe.primary_capability # <<>>
    /\ probe.primary_capability[1] \in ids
    /\ probe.name[1] \notin TEMP_PROBE_NAMES

\* capability_to_probes[cap], sorted; the names follow the scripts' order.
capability_to_probes(ids, scripts, cap) ==
    LET hits == SelectSeq(scripts, LAMBDA q : Counted(ids, q) /\ q.primary_capability[1] = cap)
    IN [k \in 1..Len(hits) |-> hits[k].name[1]]

\* probe_to_cap.get(name): the last insertion under the name wins.
probe_to_cap(ids, scripts, name) ==
    LET hits == SelectSeq(scripts, LAMBDA q : Counted(ids, q) /\ q.name[1] = name)
    IN IF hits = <<>> THEN <<>> ELSE << hits[Len(hits)].primary_capability[1] >>

\* second_tier.rs 33-43
entry_errors(ids, coverage, cap) ==
    (IF cap \notin ids THEN << Drift("coverage references unknown capability", cap, "") >>
     ELSE <<>>)
    \o (IF coverage[cap].raw_has_probe = <<>>
        THEN << Drift("coverage entry missing has_probe flag", cap, "") >> ELSE <<>>)

\* second_tier.rs 56-71
probe_errors(ids, probe) ==
    IF probe.name = <<>> THEN << Drift("is missing probe_name", "", probe.script) >>
    ELSE IF probe.primary_capability = <<>>
    THEN << Drift("is missing primary_capability_id", "", probe.script) >>
    ELSE IF probe.primary_capability[1] \notin ids
    THEN << Drift("references unknown capability", probe.primary_capability[1], probe.script) >>
    ELSE <<>>

\* second_tier.rs 99-103
listed_errors(ids, scripts, cap, listed) ==
    LET actual_cap == probe_to_cap(ids, scripts, listed) IN
    IF actual_cap = <<>> THEN << Drift("lists unknown probe", cap, listed) >>
    ELSE IF actual_cap[1] # cap THEN << Drift("lists probe but script targets", cap, listed) >>
    ELSE <<>>

\* second_tier.rs 87-121
listing_errors(ids, coverage, scripts, cap) ==
    LET cov_entry == coverage[cap]
        actual == capability_to_probes(ids, scripts, cap)
        listed == { cov_entry.probe_ids[k] : k \in 1..Len(cov_entry.probe_ids) }
    IN (IF has_probe(cov_entry) /\ actual = <<>>
        THEN << Drift("marked has_probe=true but no probes declare it", cap, "") >> ELSE <<>>)
       \o (IF ~has_probe(cov_entry) /\ actual # <<>>
           THEN << Drift("marked has_probe=false but probes target it", cap, "") >> ELSE <<>>)
       \o Concat([k \in 1..Len(cov_entry.probe_ids) |->
                    listed_errors(ids, scripts, cap, cov_entry.probe_ids[k])])
       \o Concat([k \in 1..Len(actual) |->
                    IF actual[k] \notin listed
                    THEN << Drift("missing probe in coverage list", cap, actual[k]) >>
                    ELSE <<>>])

capability_map_sync_fail_fast(ids, coverage, scripts) ==
    LET keys == SortedCaps(DOMAIN coverage)
        first_found ==
            Concat([k \in 1..Len(keys) |-> entry_errors(ids, coverage, keys[k])])
            \o Concat([k \in 1..Len(scripts) |-> probe_errors(ids, scripts[k])])
            \o Concat([k \in 1..Len(keys) |-> listing_errors(ids, coverage, scripts, keys[k])])
    IN IF first_found # <<>> THEN Err(<< Head(first_found) >>) ELSE Ok(<<>>)

\* capability_map_sync: Ok, or the drift it bails with.
capability_map_sync(ids, coverage, scripts) ==
    LET keys == SortedCaps(DOMAIN coverage)
        caps == SortedCaps(ids)
        errors_found ==
            Concat([k \in 1..Len(keys) |-> entry_errors(ids, coverage, keys[k])])
            \o Concat([k \in 1..Len(caps) |->
                         IF caps[k] \notin DOMAIN coverage
                         THEN << Drift("coverage map missing entry", caps[k], "") >>
                         ELSE <<>>])
            \o Concat([k \in 1..Len(scripts) |-> probe_errors(ids, scripts[k])])
            \o Concat([k \in 1..Len(keys) |-> listing_errors(ids, coverage, scripts, keys[k])])
    IN IF errors_found # <<>> THEN Err(errors_found) ELSE Ok(<<>>)

\* The probe scripts a probes directory can hold at position k, as parsed.
ScriptsAt(k) ==
    { [script |-> ProbeName(k) \o ".sh", name |-> n, primary_capability |-> c] :
        n \in { <<>>, <<ProbeName(k)>> },
        c \in { <<>>, <<"cap_a">>, <<"cap_b">>, <<CovUnknownCapability>> } }
    \cup { [script |-> ProbeName(k) \o ".sh", name |-> <<"tests_fixture_probe">>,
            primary_capability |-> <<"cap_a">>] }

RECURSIVE ScriptLists(_)
ScriptLists(n) ==
    IF n = 0 THEN { <<>> }
    ELSE { Append(l, q) : l \in ScriptLists(n - 1), q \in ScriptsAt(n) }

\* docs/data/probe_cap_coverage_map.json as load_coverage_map reads it.
DiskEntries(flags, lists) ==
    {<<>>} \cup { << [raw_has_probe |-> f, probe_ids |-> l] >> : f \in flags, l \in lists }
DiskMaps ==
    { [c \in { d \in {"cap_a", "cap_b", "cap_x"} :
                 (IF d = "cap_a" THEN a ELSE IF d = "cap_b" THEN b ELSE x) # <<>> } |->
         (IF c = "cap_a" THEN a ELSE IF c = "cap_b" THEN b ELSE x)[1]] :
        a \in DiskEntries({<<>>, <<TRUE>>, <<FALSE>>},
                          {<<>>, <<"p1">>, <<"p2">>, <<"p1", "p2">>, <<"ghost">>}),
        b \in DiskEntries({<<TRUE>>, <<FALSE>>}, {<<>>, <<"p1">>}),
        x \in DiskEntries({<<TRUE>>}, {<<"p1">>}) }

ValidatorInit ==
    /\ MatrixIdle
    /\ external_cli_present = TRUE
    /\ PlanIdle
    /\ cat_in = <<>> /\ cat_out = <<>>
    /\ sl_in = <<>> /\ sl_pc = "idle" /\ sl_schema = <<>> /\ sl_trace = <<>> /\ sl_out = <<>>
    /\ bd_path = <<>>
    /\ cov_in \in { << [capability_ids |-> CovCapabilities, coverage |-> m, probes |-> l] >> :
                      m \in DiskMaps,
                      l \in UNION { ScriptLists(n) : n \in 0..MaxCovProbes } }
    /\ cov_out = <<>>
    /\ ns_in = <<>> /\ ns_out = <<>>
    /\ cli_in = <<>> /\ cli_out = <<>>
    /\ fb_in = <<>> /\ fb_out = <<>>

\* One run of the validator.
Coverage_Validate ==
    /\ cov_in # <<>>
    /\ cov_out = <<>>
    /\ cov_out' = << capability_map_sync(cov_in[1].capability_ids, cov_in[1].coverage,
                                         cov_in[1].probes) >>
    /\ UNCHANGED <<envVars, mVars, peVars, pl_in, pl_calls, ds_run, cat_in, cat_out,
                   sl_in, sl_pc, sl_schema, sl_trace, sl_out, bd_path, cov_in,
                   ns_in, ns_out, cli_in, cli_out, fb_in, fb_out>>

ValidatorSpec == ValidatorInit /\ [][Coverage_Validate]_vars

(***************************************************************************)
(* Properties of the coverage validator                                    *)
(***************************************************************************)
VMap == cov_in[1].coverage
VProbes == cov_in[1].probes
Collected ==
    IF cov_out[1].ok THEN {}
    ELSE { cov_out[1].err[k] : k \in 1..Len(cov_out[1].err) }
Reported(kind, cap, probe) == [kind |-> kind, cap |-> cap, probe |-> probe] \in Collected

\* The live probe set: the probes with a name and a primary capability of the
\* catalog, the test fixture left out.
Live ==
    { k \in 1..Len(VProbes) :
        /\ VProbes[k].name # <<>>
        /\ VProbes[k].name[1] # "tests_fixture_probe"
        /\ VProbes[k].primary_capability # <<>>
        /\ VProbes[k].primary_capability[1] \in cov_in[1].capability_ids }
LiveFor(c) == { VProbes[k].name[1] : k \in { j \in Live : VProbes[j].primary_capability[1] = c } }
Flag(c) == VMap[c].raw_has_probe = <<TRUE>>
Listed(c) == { VMap[c].probe_ids[k] : k \in 1..Len(VMap[c].probe_ids) }

\* Every discrepancy between the map on disk and the live probe set, by kind.
MapDrift ==
    { [kind |-> "coverage references unknown capability", cap |-> c, probe |-> ""] :
        c \in DOMAIN VMap \ cov_in[1].capability_ids }
    \cup { [kind |-> "marked has_probe=true but no probes declare it", cap |-> c, probe |-> ""] :
             c \in { d \in DOMAIN VMap : Flag(d) /\ LiveFor(d) = {} } }
    \cup { [kind |-> "marked has_probe=false but probes target it", cap |-> c, probe |-> ""] :
             c \in { d \in DOMAIN VMap : ~Flag(d) /\ LiveFor(d) # {} } }
    \cup UNION { { [kind |-> "lists unknown probe", cap |-> c, probe |-> n] :
                     n \in { l \in Listed(c) : \A d \in {"cap_a", "cap_b"} : l \notin LiveFor(d) } }
                 : c \in DOMAIN VMap }
    \cup UNION { { [kind |-> "lists probe but script targets", cap |-> c, probe |-> n] :
                     n \in { l \in Listed(c) :
                               l \notin LiveFor(c) /\ \E d \in {"cap_a", "cap_b"} : l \in LiveFor(d) } }
                 : c \in DOMAIN VMap }
    \cup UNION { { [kind |-> "missing probe in coverage list", cap |-> c, probe |-> n] :
                     n \in LiveFor(c) \ Listed(c) }
                 : c \in DOMAIN VMap }

\* The probes that lack a name or a primary capability.
Incomplete ==
    { k \in 1..Len(VProbes) : VProbes[k].name = <<>> \/ VProbes[k].primary_capability = <<>> }

\* What the validator reports besides: an entry without its flag, a capability
\* without an entry, a complete probe of an unknown capability.
OtherDrift ==
    \/ \E c \in DOMAIN VMap : VMap[c].raw_has_probe = <<>>
    \/ cov_in[1].capability_ids \ DOMAIN VMap # {}
    \/ \E k \in 1..Len(VProbes) \ Incomplete :
          VProbes[k].primary_capability[1] \notin cov_in[1].capability_ids

MaxIds == 4

\* The order of String in a BTreeSet, for the ids that occur.
IdOrder == << <<"cap_a">>, <<"cap_b">>, <<"cap_missing">> >>

validate_capability_id(capabilities, value) ==
    IF value \in capabilities THEN Ok(<<>>) ELSE Err("Unknown secondary capability id")

\* The loop of normalize_secondary_ids from raw[k] on; acc is the BTreeSet.
RECURSIVE normalize_from(_, _, _, _)
normalize_from(capabilities, raw, k, acc) ==
    IF k > Len(raw) THEN Ok(SelectSeq(IdOrder, LAMBDA i : i \in acc))
    ELSE LET trimmed == trim(raw[k]) IN
         IF trimmed = <<>> THEN normalize_from(capabilities, raw, k + 1, acc)
         ELSE LET v == validate_capability_id(capabilities, trimmed) IN
              IF ~v.ok THEN v
              ELSE normalize_from(capabilities, raw, k + 1, acc \cup {trimmed})

normalize_secondary_ids_as_given(capabilities, raw) ==
    IF \E k \in 1..Len(raw) : trim(raw[k]) # <<>> /\ trim(raw[k]) \notin capabilities
    THEN Err("Unknown secondary capability id")
    ELSE Ok(SelectSeq(raw, LAMBDA i : trim(i) # <<>>))

normalize_secondary_ids(capabilities, raw) == normalize_from(capabilities, raw, 1, {})

RawIds ==
    { <<"cap_a">>, <<" ", "cap_a", " ">>, <<"cap_b">>, <<"cap_b", " ">>, <<>>, <<" ">>,
      <<"cap_missing">> }

NormalizeInit ==
    /\ MatrixIdle
    /\ external_cli_present = TRUE
    /\ PlanIdle
    /\ cat_in = <<>> /\ cat_out = <<>>
    /\ sl_in = <<>> /\ sl_pc = "idle" /\ sl_schema = <<>> /\ sl_trace = <<>> /\ sl_out = <<>>
    /\ bd_path = <<>>
    /\ cov_in = <<>> /\ cov_out = <<>>
    /\ ns_in \in { << [capabilities |-> c, raw |-> l] >> :
                     c \in { {<<"cap_a">>}, {<<"cap_a">>, <<"cap_b">>} },
                     l \in SeqsUpTo(RawIds, MaxIds) }
    /\ ns_out = <<>>
    /\ cli_in = <<>> /\ cli_out = <<>>
    /\ fb_in = <<>> /\ fb_out = <<>>

\* emit-record normalizes the ids it was given.
Normalize_Call ==
    /\ ns_in # <<>>
    /\ ns_out = <<>>
    /\ ns_out' = << normalize_secondary_ids(ns_in[1].capabilities, ns_in[1].raw) >>
    /\ UNCHANGED <<envVars, mVars, peVars, pl_in, pl_calls, ds_run, cat_in, cat_out,
                   sl_in, sl_pc, sl_schema, sl_trace, sl_out, bd_path, cov_in, cov_out,
                   ns_in, cli_in, cli_out, fb_in, fb_out>>

\* The list returned is normalized once more.
Normalize_Again ==
    /\ Len(ns_out) = 1
    /\ ns_out[1].ok
    /\ ns_out' = Append(ns_out, normalize_secondary_ids(ns_in[1].capabilities, ns_out[1].val))
    /\ UNCHANGED <<envVars, mVars, peVars, pl_in, pl_calls, ds_run, cat_in, cat_out,
                   sl_in, sl_pc, sl_schema, sl_trace, sl_out, bd_path, cov_in, cov_out,
                   ns_in, cli_in, cli_out, fb_in, fb_out>>

NormalizeNext ==
    \/ Normalize_Call
    \/ Normalize_Again

NormalizeSpec == NormalizeInit /\ [][NormalizeNext]_vars

\* The ids given, white space around them removed, the empty ones dropped.
GivenIds ==
    { i \in { << <<"cap_a">>, <<"cap_b">>, <<"cap_missing">> >>[n] : n \in 1..3 } :
        \E k \in 1..Len(ns_in[1].raw) :
           \/ ns_in[1].raw[k] = i
           \/ ns_in[1].raw[k] = <<" ">> \o i \o <<" ">>
           \/ ns_in[1].raw[k] = i \o <<" ">> }

\* C24: normalize_secondary_ids succeeds exactly when every trimmed non-empty
\* id is in the catalog; it then returns exactly those ids, each once, and the
\* same list for every order of the input; on failure it returns no list;
\* applied to its own output it returns the same list.
C24_NormalizeSecondary ==
    ns_out # <<>> =>
       /\ ns_out[1].ok <=> GivenIds \subseteq ns_in[1].capabilities
       /\ ns_out[1].ok =>
             /\ { ns_out[1].val[k] : k \in 1..Len(ns_out[1].val) } = GivenIds
             /\ Len(ns_out[1].val) = Cardinality(GivenIds)
             /\ \A f \in Permutations(1..Len(ns_in[1].raw)) :
                   normalize_secondary_ids(ns_in[1].capabilities,
                                           [k \in 1..Len(ns_in[1].raw) |-> ns_in[1].raw[f[k]]])
                      = ns_out[1]
       /\ ~ns_out[1].ok => DOMAIN ns_out[1] = {"ok", "err"}
       /\ Len(ns_out) = 2 => ns_out[2] = ns_out[1]

C24_Witness ==
    /\ Len(ns_out) = 2
    /\ ns_in[1].raw = << <<"cap_b">>, <<" ", "cap_a", " ">>, <<>>, <<"cap_a">> >>
    /\ ns_out[1].ok
    /\ ns_out[1].val = << <<"cap_a">>, <<"cap_b">> >>

(***************************************************************************)
(* Further properties of the run modes and of probe-exec                   *)
(***************************************************************************)
\* The modes a matrix run is to use when MODES names none.
DefaultRunModes ==
    IF external_cli_present THEN <<"Baseline", "CodexFull", "CodexSandbox">>
    ELSE <<"Baseline", "CodexFull">>

\* C25: with MODES unset or empty the matrix runs baseline, codex-full and, if
\* and only if the external CLI is present, codex-sandbox, in this order; every
\* default mode name is an allowed mode name and parses to a run mode.
C25_DefaultModes ==
    /\ default_mode_names(FALSE) = <<"baseline", "codex-full">>
    /\ default_mode_names(TRUE) = <<"baseline", "codex-full", "codex-sandbox">>
    /\ \A a \in BOOLEAN : \A k \in 1..Len(default_mode_names(a)) :
          /\ default_mode_names(a)[k] \in allowed_mode_names
          /\ RunMode_try_from(default_mode_names(a)[k]).ok
    /\ (entry = "probe-matrix" /\ MODES = <<>> /\ mpc \in {"loop", "wait"}) =>
          modes = DefaultRunModes
    /\ (entry = "probe-matrix" /\ MODES = <<>> /\ Completed) =>
          /\ modes = DefaultRunModes
          /\ Len(attempted) = Len(DefaultRunModes) * Len(probes)
          /\ \A k \in 1..Len(attempted) :
                PairMode(k) = DefaultRunModes[((k - 1) \div Len(probes)) + 1]

C25_Witness ==
    /\ entry = "probe-matrix"
    /\ MODES = <<>>
    /\ Completed
    /\ external_cli_present
    /\ Len(probes) = 2
    /\ Len(attempted) = 6

\* C26: both codex-* modes are executed through the external CLI: a plan for
\* codex-full, like the one for codex-sandbox, has the external CLI as its
\* program and the probe among its arguments, and planning either of the two
\* modes fails when the external CLI is not present.
C26_AsStated ==
    (pl_in # <<>> /\ pl_in[1].requested_mode \in {"codex-sandbox", "codex-full"}) =>
       \A k \in PlanCalls :
          /\ ~pl_calls[k].present => ~pl_calls[k].result.ok
          /\ pl_calls[k].result.ok =>
                /\ pl_calls[k].result.val.connector = "ExternalCli"
                /\ pl_calls[k].result.val.command.program = OsStr(external_cli_command)
                /\ \E a \in 1..Len(pl_calls[k].result.val.command.args) :
                      pl_calls[k].result.val.command.args[a] = pl_in[1].probe_path

\* probe-exec has got past its three checks of the probe.
PastProbeChecks == pe_pc \in {"plan", "preflight", "tmpdir_error", "run_command"}

\* The three checks hold of the identifier probe-exec was given.
ProbeChecked ==
    /\ resolve_probe(pe_args.probe_name).ok
    /\ pe_probe = <<resolve_probe(pe_args.probe_name).val>>
    /\ resolve_probe_metadata(pe_probe[1]).ok
    /\ ensure_probe_executable(pe_probe[1].path).ok

\* C27: probe-exec starts no command, neither the trial mkdir nor the probe, for
\* an identifier unless probe resolution, metadata resolution and the executable
\* check all succeeded for it, and the probe path in the command that is run is
\* exactly the canonical path the resolver returned.
C27_NoSpawnBeforeChecks ==
    /\ (PastProbeChecks \/ spawned # <<>> \/ emitted # <<>>) => ProbeChecked
    /\ (pe_pc = "exited" /\ ~ProbeChecked) =>
          /\ spawned = <<>>
          /\ pe_exit = 1
          /\ pe_plan = <<>>
    /\ \A k \in 1..Len(spawned) :
          spawned[k].what = "probe" =>
             /\ SpawnedScript(spawned[k]) = pe_probe[1].path
             /\ <<SpawnedScript(spawned[k])>> =
                   canonicalize(probe_candidate(pe_args.probe_name))
             /\ spawned[k].program = pe_plan[1].command.program
             /\ spawned[k].args = pe_plan[1].command.args

C27_Witness ==
    /\ entry = "probe-exec"
    /\ pe_args.probe_name = <<"good">>
    /\ pe_args.run_mode = "codex-sandbox"
    /\ Len(spawned) = 2
    /\ spawned[1].what = "preflight"
    /\ spawned[2].args[Len(spawned[2].args)] = probes_root \o <<"good.sh">>

MaxArgs == 4

\* Command-line arguments, each a string given by its pieces.
ArgTokens ==
    { <<"--bang">>, <<"--bundle">>, <<"--probe">>, <<"--catalog">>, <<"--help">>,
      <<"good">>, <<" ">>, <<" ", "cap_a">> }

SelectionAll(explicit) == [kind |-> "All", explicit |-> explicit, id |-> <<>>]
SelectionBundle(id) == [kind |-> "Bundle", explicit |-> FALSE, id |-> id]
SelectionProbe(id) == [kind |-> "Probe", explicit |-> FALSE, id |-> id]

\* The value after a flag, trimmed; missing and blank values are errors.
next_value(flag, argv, k) ==
    IF k > Len(argv) THEN Err([kind |-> "RequiresValue", name |-> flag])
    ELSE IF trim(argv[k]) = <<>> THEN Err([kind |-> "ValueEmpty", name |-> flag])
    ELSE Ok(trim(argv[k]))

next_path(flag, argv, k) ==
    IF k > Len(argv) THEN Err([kind |-> "RequiresValue", name |-> flag])
    ELSE IF argv[k] = <<>> THEN Err([kind |-> "ValueEmpty", name |-> flag])
    ELSE Ok(argv[k])

set_selection(current, new_sel) ==
    IF current = <<>> THEN Ok(<<new_sel>>)
    ELSE IF current[1] = SelectionAll(FALSE) THEN Ok(<<new_sel>>)
    ELSE Err([kind |-> "SelectExactlyOne", name |-> ""])

\* Cli::parse, from the k-th argument on.
RECURSIVE Cli_parse_from(_, _, _, _, _)
Cli_parse_from(argv, k, selection, catalog_path, boundary_path) ==
    IF k > Len(argv)
    THEN Ok([selection |-> IF selection = <<>> THEN SelectionAll(FALSE) ELSE selection[1],
             catalog_path |-> catalog_path,
             boundary_path |-> boundary_path])
    ELSE CASE argv[k] = <<"--bang">> ->
                Cli_parse_from(argv, k + 1, <<SelectionAll(TRUE)>>, catalog_path,
                               boundary_path)
           [] argv[k] = <<"--bundle">> ->
                LET v == next_value("--bundle", argv, k + 1) IN
                IF ~v.ok THEN v ELSE
                LET sel == set_selection(selection, SelectionBundle(v.val)) IN
                IF ~sel.ok THEN sel
                ELSE Cli_parse_from(argv, k + 2, sel.val, catalog_path, boundary_path)
           [] argv[k] = <<"--probe">> ->
                LET v == next_value("--probe", argv, k + 1) IN
                IF ~v.ok THEN v ELSE
                LET sel == set_selection(selection, SelectionProbe(v.val)) IN
                IF ~sel.ok THEN sel
                ELSE Cli_parse_from(argv, k + 2, sel.val, catalog_path, boundary_path)
           [] argv[k] = <<"--catalog">> ->
                LET v == next_path("--catalog", argv, k + 1) IN
                IF ~v.ok THEN v
                ELSE Cli_parse_from(argv, k + 2, selection, <<v.val>>, boundary_path)
           [] argv[k] = <<"--boundary">> ->
                LET v == next_path("--boundary", argv, k + 1) IN
                IF ~v.ok THEN v
                ELSE Cli_parse_from(argv, k + 2, selection, catalog_path, <<v.val>>)
           [] argv[k] \in { <<"--help">>, <<"-h">> } ->
                Err([kind |-> "Usage", name |-> ""])
           [] OTHER -> Err([kind |-> "UnknownArgument", name |-> ""])

Cli_parse(argv) == Cli_parse_from(argv, 1, <<>>, <<>>, <<>>)

CommandLines == UNION { [1..n -> ArgTokens] : n \in 0..MaxArgs }

CliInit ==
    /\ MatrixIdle
    /\ external_cli_present = TRUE
    /\ PlanIdle
    /\ cat_in = <<>> /\ cat_out = <<>>
    /\ sl_in = <<>> /\ sl_pc = "idle" /\ sl_schema = <<>> /\ sl_trace = <<>> /\ sl_out = <<>>
    /\ bd_path = <<>>
    /\ cov_in = <<>> /\ cov_out = <<>>
    /\ ns_in = <<>> /\ ns_out = <<>>
    /\ cli_in \in { <<argv>> : argv \in CommandLines }
    /\ cli_out = <<>>
    /\ fb_in = <<>> /\ fb_out = <<>>

\* run: Cli::parse()?; usage exits 0, any other error exits 1.
Cli_Parse ==
    /\ cli_in # <<>>
    /\ cli_out = <<>>
    /\ LET r == Cli_parse(cli_in[1]) IN
       cli_out' = << [result |-> r,
                      pc |-> IF r.ok THEN "resolve_probes" ELSE "exited",
                      code |-> IF r.ok THEN -1 ELSE IF r.err.kind = "Usage" THEN 0 ELSE 1] >>
    /\ UNCHANGED <<envVars, mVars, peVars, pl_in, pl_calls, ds_run, cat_in, cat_out,
                   sl_in, sl_pc, sl_schema, sl_trace, sl_out, bd_path, cov_in, cov_out,
                   ns_in, ns_out, cli_in, fb_in, fb_out>>

\* run: resolve_probes is entered with the selection parsed.
Cli_ResolveProbes ==
    /\ cli_out # <<>>
    /\ cli_out[1].pc = "resolve_probes"
    /\ cli_out' = << [cli_out[1] EXCEPT !.pc = "resolved"] >>
    /\ UNCHANGED <<envVars, mVars, peVars, pl_in, pl_calls, ds_run, cat_in, cat_out,
                   sl_in, sl_pc, sl_schema, sl_trace, sl_out, bd_path, cov_in, cov_out,
                   ns_in, ns_out, cli_in, fb_in, fb_out>>

CliNext ==
    \/ Cli_Parse
    \/ Cli_ResolveProbes

CliSpec == CliInit /\ [][CliNext]_vars

\* The selectors a command line gives, flags with a value taking the next
\* argument as the parser does.
RECURSIVE SelectorsFrom(_, _)
SelectorsFrom(argv, k) ==
    IF k > Len(argv) THEN {}
    ELSE IF argv[k] = <<"--bang">> THEN {"--bang"} \cup SelectorsFrom(argv, k + 1)
    ELSE IF argv[k] \in { <<"--bundle">>, <<"--probe">> }
         THEN {argv[k][1]} \cup SelectorsFrom(argv, k + 2)
    ELSE IF argv[k] \in { <<"--catalog">>, <<"--boundary">> }
         THEN SelectorsFrom(argv, k + 2)
    ELSE SelectorsFrom(argv, k + 1)

\* C29: probe-matrix accepts exactly one of the selectors --bang, --bundle and
\* --probe: every command line that gives two or more of them, in any order,
\* is refused before any probe is resolved or run.
C29_AsStated ==
    (cli_out # <<>> /\ Cardinality(SelectorsFrom(cli_in[1], 1)) >= 2) =>
       /\ ~cli_out[1].result.ok
       /\ cli_out[1].pc = "exited"

(***************************************************************************)
(* bin/fence_bang.rs: run_probe and the child's two signals                *)
(***************************************************************************)
ChildExitCodes == {0, 1, 2, 71}
ChildStderrTexts == {"", "sandbox_apply: Operation not permitted", "Permission denied"}
ChildStdouts ==
    { <<>>, << [kind |-> "text"] >>, <<probe_record("good", "baseline", "pretty")>> }

BangInit ==
    /\ MatrixIdle
    /\ external_cli_present = TRUE
    /\ PlanIdle
    /\ cat_in = <<>> /\ cat_out = <<>>
    /\ sl_in = <<>> /\ sl_pc = "idle" /\ sl_schema = <<>> /\ sl_trace = <<>> /\ sl_out = <<>>
    /\ bd_path = <<>>
    /\ cov_in = <<>> /\ cov_out = <<>>
    /\ ns_in = <<>> /\ ns_out = <<>>
    /\ cli_in = <<>> /\ cli_out = <<>>
    /\ fb_in \in { << [mode |-> m, code |-> c, child_stderr |-> e, bytes |-> b] >> :
                     m \in RunMode, c \in ChildExitCodes, e \in ChildStderrTexts,
                     b \in ChildStdouts }
    /\ fb_out = <<>>

\* run_probe of fence-bang: the child's stdout is piped and its stderr is
\* inherited, so what the child wrote there is not among what is looked at.
Bang_RunProbe ==
    /\ fb_in # <<>>
    /\ fb_out = <<>>
    /\ fb_out' = << run_probe_bang(fb_in[1].mode, fb_in[1].code, fb_in[1].bytes) >>
    /\ UNCHANGED <<envVars, mVars, peVars, pl_in, pl_calls, ds_run, cat_in, cat_out,
                   sl_in, sl_pc, sl_schema, sl_trace, sl_out, bd_path, cov_in, cov_out,
                   ns_in, ns_out, cli_in, cli_out, fb_in>>

BangSpec == BangInit /\ [][Bang_RunProbe]_vars

\* C30: in fence-bang's run_probe, for a codex mode, the exit code 71 and a
\* child stderr containing `sandbox_apply` are equivalent skip signals: a
\* non-zero exit showing either one alone is skipped and not kept as a failure,
\* and neither signal causes a skip in baseline mode.
C30_AsStated ==
    fb_out # <<>> =>
       LET child == fb_in[1]
           signalled == \/ child.code = 71
                        \/ contains_sandbox_apply(child.child_stderr)
       IN /\ (is_codex(child.mode) /\ child.code # 0 /\ signalled) =>
                fb_out[1].act = "skip"
          /\ (child.mode = "Baseline" /\ child.code # 0) => fb_out[1].act = "fail"
====
